---- MODULE Spec2Model ----
(***************************************************************************)
(* Runtime payload schema interpreter (include/schema_interpreter.h):      *)
(* schema_decode / decode_field, schema_encode / encode_field and the      *)
(* helpers they use, as a state machine over one schema, one payload and   *)
(* one encoder input map, with schema_init / schema_add_field and          *)
(* schema_load_binary building the schema.                                 *)
(*                                                                         *)
(* Numbers.  A C double is modelled by an exact rational <<n, d>> (d > 0,  *)
(* lowest terms).  The schemas of the model carry only dyadic modifiers    *)
(* of small magnitude, for which every double operation of the code is     *)
(* exact, so the rational and the double agree.  Integers are TLC          *)
(* integers; the inputs of the model keep every value below 2^31.          *)
(* 64-bit and IEEE fields are carried as their big-endian byte strings.    *)
(***************************************************************************)
EXTENDS Integers, Sequences, FiniteSets, TLC

VARIABLES
  schema,   \* schema_t: [endian, fields]
  buf,      \* the payload handed to schema_decode
  inputs,   \* encode_inputs_t handed to schema_encode
  pc,       \* "ready", "decoding", "decoded", "encoding", "encoded"
  mode,     \* which call sequence is running: "", "dec", "enc", "encdec", "decenc",
            \* or is ahead: "load" (schema_load_binary), "build" (schema_add_field)
  i,        \* schema_decode: loop index
  pos,      \* schema_decode: cursor
  vars,     \* schema_decode: var_context_t
  result,   \* decode_result_t
  rc,       \* return value of schema_decode
  oob,      \* a payload byte at an index >= len has been read
  log,      \* one record per decode_field call of the running decode
  ei,       \* schema_encode: loop index
  epos,     \* schema_encode: cursor
  eres,     \* encode_result_t (data holds the bytes written, others are 0)
  erc,      \* return value of schema_encode
  elog,     \* one record per encode_field call of the running encode
  desc,     \* the binary descriptor handed to schema_load_binary
  lrc,      \* return value of schema_load_binary (1 before the call)
  adds      \* schema_add_field calls made by the caller so far

vars_all == <<schema, buf, inputs, pc, mode, i, pos, vars, result, rc, oob, log,
              ei, epos, eres, erc, elog, desc, lrc, adds>>

(***************************************************************************)
(* Program constants                                                       *)
(***************************************************************************)
SCHEMA_MAX_FIELDS == 32
SCHEMA_MAX_PAYLOAD == 256
SCHEMA_MAX_NAME_LEN == 32
SCHEMA_MAX_LOOKUP == 16

SCHEMA_OK == 0
SCHEMA_ERR_PARSE == -1
SCHEMA_ERR_BUFFER == -2
SCHEMA_ERR_TYPE == -4
SCHEMA_ERR_UNSUPPORTED == -6
SCHEMA_ERR_MISSING == -7

ENDIAN_DEFAULT == 0
ENDIAN_BIG == 1
ENDIAN_LITTLE == 2

(***************************************************************************)
(* Rationals standing for doubles                                          *)
(***************************************************************************)
Abs(x) == IF x < 0 THEN -x ELSE x

RECURSIVE Gcd(_, _)
Gcd(a, b) == IF b = 0 THEN a ELSE Gcd(b, a % b)

RNorm(n, d) ==
  LET s == IF d < 0 THEN -1 ELSE 1
      g == Gcd(Abs(n), Abs(d))
  IN  IF n = 0 THEN <<0, 1>> ELSE <<(s * n) \div g, (s * d) \div g>>

R(n) == <<n, 1>>
RMul(a, b) == RNorm(a[1] * b[1], a[2] * b[2])
RDiv(a, b) == RNorm(a[1] * b[2], a[2] * b[1])
RAdd(a, b) == RNorm(a[1] * b[2] + b[1] * a[2], a[2] * b[2])
RSub(a, b) == RNorm(a[1] * b[2] - b[1] * a[2], a[2] * b[2])
RIsZero(a) == a[1] = 0
RNonNeg(a) == a[1] >= 0
\* (int64_t)x for a double x: truncation toward zero
RTrunc(a) == IF a[1] >= 0 THEN a[1] \div a[2] ELSE -((-a[1]) \div a[2])

(***************************************************************************)
(* Field definitions (struct field_def) and the builders                   *)
(***************************************************************************)
NoCase == [match_value |-> 0, match_list |-> <<0, 0, 0, 0, 0, 0, 0, 0>>,
           range_min |-> 0, range_max |-> 0, is_default |-> FALSE,
           field_start |-> 0, field_count |-> 0]

\* field_def_t f = {0}
ZeroField ==
  [name |-> "", type |-> "U8", size |-> 0, bit_start |-> 0, bit_width |-> 0,
   consume |-> FALSE, endian |-> ENDIAN_DEFAULT,
   mult |-> R(0), div |-> R(0), add |-> R(0),
   has_mult |-> FALSE, has_div |-> FALSE, has_add |-> FALSE,
   var_name |-> "", lookup |-> <<>>, match_var |-> "", cases |-> <<>>]

field_u8(name) == [ZeroField EXCEPT !.name = name, !.type = "U8", !.size = 1]
field_s8(name) == [ZeroField EXCEPT !.name = name, !.type = "S8", !.size = 1]
field_u16(name, e) == [ZeroField EXCEPT !.name = name, !.type = "U16", !.size = 2, !.endian = e]
field_s16(name, e) == [ZeroField EXCEPT !.name = name, !.type = "S16", !.size = 2, !.endian = e]
field_u24(name, e) == [ZeroField EXCEPT !.name = name, !.type = "U24", !.size = 3, !.endian = e]
field_s24(name, e) == [ZeroField EXCEPT !.name = name, !.type = "S24", !.size = 3, !.endian = e]
field_u32(name, e) == [ZeroField EXCEPT !.name = name, !.type = "U32", !.size = 4, !.endian = e]
field_s32(name, e) == [ZeroField EXCEPT !.name = name, !.type = "S32", !.size = 4, !.endian = e]
field_u64(name, e) == [ZeroField EXCEPT !.name = name, !.type = "U64", !.size = 8, !.endian = e]
field_s64(name, e) == [ZeroField EXCEPT !.name = name, !.type = "S64", !.size = 8, !.endian = e]
field_f16(name, e) == [ZeroField EXCEPT !.name = name, !.type = "F16", !.size = 2, !.endian = e]
field_f32(name, e) == [ZeroField EXCEPT !.name = name, !.type = "F32", !.size = 4, !.endian = e]
field_f64(name, e) == [ZeroField EXCEPT !.name = name, !.type = "F64", !.size = 8, !.endian = e]
field_bits(name, start, width, consume) ==
  [ZeroField EXCEPT !.name = name, !.type = "BITS", !.bit_start = start,
                    !.bit_width = width, !.consume = consume]
field_bool(name, bit_pos, consume) ==
  [ZeroField EXCEPT !.name = name, !.type = "BOOL", !.bit_start = bit_pos, !.consume = consume]
field_enum(name, base_size) == [ZeroField EXCEPT !.name = name, !.type = "ENUM", !.size = base_size]
field_hex(name, length) == [ZeroField EXCEPT !.name = name, !.type = "HEX", !.size = length]
field_ascii(name, length) == [ZeroField EXCEPT !.name = name, !.type = "ASCII", !.size = length]
field_bytes_type(name, length) == [ZeroField EXCEPT !.name = name, !.type = "BYTES", !.size = length]
field_skip(length) == [ZeroField EXCEPT !.name = "_skip", !.type = "SKIP", !.size = length]

field_set_mult(f, m) == [f EXCEPT !.mult = m, !.has_mult = TRUE]
field_set_div(f, d) == [f EXCEPT !.div = d, !.has_div = TRUE]
field_set_add(f, a) == [f EXCEPT !.add = a, !.has_add = TRUE]
field_set_var(f, v) == [f EXCEPT !.var_name = v]
field_add_lookup(f, key, value) ==
  IF Len(f.lookup) < SCHEMA_MAX_LOOKUP
  THEN [f EXCEPT !.lookup = Append(@, [key |-> key, value |-> value])]
  ELSE f

\* a field whose struct is filled in by hand, as the tests do for
\* base64, udec, sdec and match
field_raw(name, type, size) == [ZeroField EXCEPT !.name = name, !.type = type, !.size = size]

(***************************************************************************)
(* Byte reading utilities.  b is a sequence of bytes (most significant     *)
(* first for the _be readers).                                             *)
(***************************************************************************)
read_u8(b) == b[1]
read_u16_be(b) == b[1] * 256 + b[2]
read_u16_le(b) == b[2] * 256 + b[1]
read_u24_be(b) == b[1] * 65536 + b[2] * 256 + b[3]
read_u24_le(b) == b[3] * 65536 + b[2] * 256 + b[1]
read_u32_be(b) == b[1] * 16777216 + b[2] * 65536 + b[3] * 256 + b[4]
read_u32_le(b) == b[4] * 16777216 + b[3] * 65536 + b[2] * 256 + b[1]
read_s8(b) == IF b[1] >= 128 THEN b[1] - 256 ELSE b[1]
read_s16_be(b) == LET u == read_u16_be(b) IN IF u >= 32768 THEN u - 65536 ELSE u
read_s16_le(b) == LET u == read_u16_le(b) IN IF u >= 32768 THEN u - 65536 ELSE u
\* if (val & 0x800000) val |= 0xFF000000; return (int32_t)val
read_s24_be(b) == LET u == read_u24_be(b) IN IF u >= 8388608 THEN u - 16777216 ELSE u
read_s24_le(b) == LET u == read_u24_le(b) IN IF u >= 8388608 THEN u - 16777216 ELSE u
\* (int32_t)read_u32: the top byte carries the sign
read_s32_be(b) == read_s8(<<b[1]>>) * 16777216 + b[2] * 65536 + b[3] * 256 + b[4]
read_s32_le(b) == read_s8(<<b[4]>>) * 16777216 + b[3] * 65536 + b[2] * 256 + b[1]

RECURSIVE Reverse(_)
Reverse(s) == IF s = <<>> THEN <<>> ELSE Append(Reverse(Tail(s)), Head(s))

Pow2(k) == 2 ^ k

\* (byte >> start) & ((1 << width) - 1), returned as uint8_t
extract_bits(byte, start, width) ==
  LET sh == IF start < 8 THEN byte \div Pow2(start) ELSE 0
  IN  IF width < 8 THEN sh % Pow2(width) ELSE sh

(***************************************************************************)
(* Variable context                                                        *)
(***************************************************************************)
VarIndex(ctx, name) ==
  LET hits == {k \in 1..Len(ctx) : ctx[k].name = name}
  IN  IF hits = {} THEN 0 ELSE CHOOSE k \in hits : \A m \in hits : k <= m

var_setKeepFirst(ctx, name, value) ==
  LET k == VarIndex(ctx, name)
  IN  IF k # 0 THEN ctx
      ELSE IF Len(ctx) < SCHEMA_MAX_FIELDS
           THEN Append(ctx, [name |-> name, value |-> value])
           ELSE ctx
var_set(ctx, name, value) ==
  LET k == VarIndex(ctx, name)
  IN  IF k # 0 THEN [ctx EXCEPT ![k].value = value]
      ELSE IF Len(ctx) < SCHEMA_MAX_FIELDS
           THEN Append(ctx, [name |-> name, value |-> value])
           ELSE ctx

var_get(ctx, name) ==
  LET k == VarIndex(ctx, name)
  IN  IF k # 0 THEN ctx[k].value ELSE 0

(***************************************************************************)
(* Decoded values (field_value_t plus the member that was written).        *)
(* k names the member/format: "f64" (n/d), "i64" (n), "b" (n in 0..1),     *)
(* "str" (s; for "unknown(%d)" s = "unknown" and n = the number),          *)
(* "ascii", "hex" (nibbles), "base64" (sextets, 64 = '='), "bytes",        *)
(* "f32", "f64bits" (big-endian bit pattern), "inf"/"nan"/"negzero".       *)
(***************************************************************************)
V0 == [k |-> "none", n |-> 0, d |-> 1, s |-> "", b |-> <<>>]
VF64(r) == [V0 EXCEPT !.k = "f64", !.n = r[1], !.d = r[2]]
VI64(x) == [V0 EXCEPT !.k = "i64", !.n = x]
VBool(x) == [V0 EXCEPT !.k = "b", !.n = IF x THEN 1 ELSE 0]
VStr(str) == [V0 EXCEPT !.k = "str", !.s = str]
VUnknown(raw) == [V0 EXCEPT !.k = "str", !.s = "unknown", !.n = raw]
VSeq(kind, bytes) == [V0 EXCEPT !.k = kind, !.b = bytes]

\* buf[idx]; an index at or past the end of the payload is an out-of-range
\* read whose value is whatever lies there (junk)
Rd(b, idx, junk) == IF idx < Len(b) THEN b[idx + 1] ELSE junk
Slice(b, p, n, junk) == [k \in 1..n |-> Rd(b, p + k - 1, junk)]
OobRange(b, p, n) == n > 0 /\ p + n > Len(b)

Min(a, b) == IF a < b THEN a ELSE b

\* the sum of a sequence of integers, and the concatenation of a sequence
\* of sequences, each over the two halves of the sequence
RECURSIVE SumSeq(_)
SumSeq(s) ==
  IF Len(s) = 0 THEN 0
  ELSE IF Len(s) = 1 THEN s[1]
  ELSE SumSeq(SubSeq(s, 1, Len(s) \div 2)) + SumSeq(SubSeq(s, Len(s) \div 2 + 1, Len(s)))

RECURSIVE Concat(_)
Concat(ss) ==
  IF Len(ss) = 0 THEN <<>>
  ELSE IF Len(ss) = 1 THEN ss[1]
  ELSE Concat(SubSeq(ss, 1, Len(ss) \div 2)) \o Concat(SubSeq(ss, Len(ss) \div 2 + 1, Len(ss)))

\* what an out-of-range read may find
JunkBytes == {0, 255}

\* the C string held in a char array: the bytes before the first NUL
RECURSIVE CStr(_)
CStr(bytes) ==
  IF bytes = <<>> \/ Head(bytes) = 0 THEN <<>> ELSE <<Head(bytes)>> \o CStr(Tail(bytes))

RECURSIVE HexChars(_)
HexChars(bytes) ==
  IF bytes = <<>> THEN <<>>
  ELSE <<Head(bytes) \div 16, Head(bytes) % 16>> \o HexChars(Tail(bytes))

\* the base64 loop of decode_field: 4 output characters per 3 input bytes,
\* while out_idx < SCHEMA_MAX_NAME_LEN - 4
RECURSIVE Base64Chars(_, _)
Base64Chars(bytes, out_idx) ==
  IF bytes = <<>> \/ out_idx >= SCHEMA_MAX_NAME_LEN - 4 THEN <<>>
  ELSE LET n  == Len(bytes)
           b0 == bytes[1]
           b1 == IF n > 1 THEN bytes[2] ELSE 0
           b2 == IF n > 2 THEN bytes[3] ELSE 0
           rest == IF n > 3 THEN SubSeq(bytes, 4, n) ELSE <<>>
       IN  <<b0 \div 4,
             (b0 % 4) * 16 + b1 \div 16,
             IF n > 1 THEN (b1 % 16) * 4 + b2 \div 64 ELSE 64,
             IF n > 2 THEN b2 % 64 ELSE 64>> \o Base64Chars(rest, out_idx + 4)

\* read_u64: (hi << 32) | lo
read_u64_be(b) ==
  LET hi == read_u32_be(SubSeq(b, 1, 4))
      lo == read_u32_be(SubSeq(b, 5, 8))
  IN  IF hi = 0 THEN lo ELSE hi * 65536 * 65536 + lo
read_s64_be(b) ==
  LET hi == read_s32_be(SubSeq(b, 1, 4))
      lo == read_u32_be(SubSeq(b, 5, 8))
  IN  IF hi = 0 THEN lo ELSE hi * 65536 * 65536 + lo

\* IEEE 754 half precision, by sign / exponent / fraction
read_f16_be(b) ==
  LET h == read_u16_be(b)
      sign == (h \div 32768) % 2
      exp == (h \div 1024) % 32
      frac == h % 1024
      mag == IF exp = 0 THEN RNorm(frac, 1024 * 16384)
             ELSE IF exp >= 15 THEN RNorm((1024 + frac) * Pow2(exp - 15), 1024)
             ELSE RNorm(1024 + frac, 1024 * Pow2(15 - exp))
  IN  IF exp = 0 /\ frac = 0 THEN (IF sign = 1 THEN [V0 EXCEPT !.k = "negzero"] ELSE VF64(R(0)))
      ELSE IF exp = 31 THEN (IF frac = 0 THEN [V0 EXCEPT !.k = "inf", !.n = 1 - 2 * sign]
                             ELSE [V0 EXCEPT !.k = "nan"])
      ELSE VF64(IF sign = 1 THEN <<-mag[1], mag[2]>> ELSE mag)

\* the byte width the switch of decode_field checks, reads and advances by
IntWidth(type) ==
  CASE type \in {"U8", "S8"} -> 1
    [] type \in {"U16", "S16"} -> 2
    [] type \in {"U24", "S24"} -> 3
    [] type \in {"U32", "S32"} -> 4
    [] type \in {"U64", "S64"} -> 8

ReadInt(type, b, big) ==
  CASE type = "U8" -> read_u8(b)
    [] type = "S8" -> read_s8(b)
    [] type = "U16" -> IF big THEN read_u16_be(b) ELSE read_u16_le(b)
    [] type = "S16" -> IF big THEN read_s16_be(b) ELSE read_s16_le(b)
    [] type = "U24" -> IF big THEN read_u24_be(b) ELSE read_u24_le(b)
    [] type = "S24" -> IF big THEN read_s24_be(b) ELSE read_s24_le(b)
    [] type = "U32" -> IF big THEN read_u32_be(b) ELSE read_u32_le(b)
    [] type = "S32" -> IF big THEN read_s32_be(b) ELSE read_s32_le(b)
    [] type = "U64" -> IF big THEN read_u64_be(b) ELSE read_u64_be(Reverse(b))
    [] type = "S64" -> IF big THEN read_s64_be(b) ELSE read_s64_be(Reverse(b))

\* value = raw * mult / div + add, each step only if flagged
\* (the division also only if div != 0 when guarded)
ApplyModifiers(field, x, guard_div) ==
  LET a == IF field.has_mult THEN RMul(x, field.mult) ELSE x
      b == IF field.has_div /\ (~guard_div \/ ~RIsZero(field.div)) THEN RDiv(a, field.div) ELSE a
  IN  IF field.has_add THEN RAdd(b, field.add) ELSE b

\* index (1-based) of the first lookup entry whose key is raw, 0 if none
LookupIndex(field, raw) ==
  LET hits == {k \in 1..Len(field.lookup) : field.lookup[k].key = raw}
  IN  IF hits = {} THEN 0 ELSE CHOOSE k \in hits : \A m \in hits : k <= m

\* if (field->consume) *pos += 1
BitsAdvanceAlways(field, p) == p + 1
BitsAdvance(field, p) == IF field.consume THEN p + 1 ELSE p

(***************************************************************************)
(* decode_field: one field at the cursor.  Yields the return code, the     *)
(* new cursor, the decoded_field_t written to the output slot, the new     *)
(* variable context and whether a payload byte past the end was read.      *)
(***************************************************************************)
DRet(code, p, out, ctx, bad) == [rc |-> code, pos |-> p, out |-> out, vars |-> ctx, oob |-> bad]

decode_field(field, b, p, ctx, default_endian, junk) ==
  LET len == Len(b)
      endian == IF field.endian # ENDIAN_DEFAULT THEN field.endian ELSE default_endian
      big == (endian = ENDIAN_BIG)
      t == field.type
      out0 == [name |-> field.name, type |-> t, valid |-> FALSE, value |-> V0]
      Fail == DRet(SCHEMA_ERR_BUFFER, p, out0, ctx, FALSE)
      Ok(np, val, nctx, bad) == DRet(SCHEMA_OK, np, [out0 EXCEPT !.valid = TRUE, !.value = val], nctx, bad)
      SetVar(raw) == IF field.var_name # "" THEN var_set(ctx, field.var_name, raw) ELSE ctx
      \* the common tail after the switch: variable, modifiers, lookup
      Tail1(np, raw, bad) ==
        LET final_value == ApplyModifiers(field, R(raw), TRUE)
            li == LookupIndex(field, raw)
        IN  IF Len(field.lookup) > 0
            THEN (IF li # 0 THEN Ok(np, VStr(field.lookup[li].value), SetVar(raw), bad)
                  ELSE Ok(np, VI64(raw), SetVar(raw), bad))
            ELSE Ok(np, VF64(final_value), SetVar(raw), bad)
  IN
  CASE t \in {"U8", "U16", "U24", "U32", "S8", "S16", "S24", "S32", "S64"} ->
         LET w == IntWidth(t)
         IN  IF p + w > len THEN Fail
             ELSE Tail1(p + w, ReadInt(t, Slice(b, p, w, junk), big), OobRange(b, p, w))
    [] t = "U64" ->
         IF p + 8 > len THEN Fail
         ELSE LET u == ReadInt(t, Slice(b, p, 8, junk), big)
              IN  Ok(p + 8, VF64(ApplyModifiers(field, R(u), TRUE)), SetVar(u), OobRange(b, p, 8))
    [] t = "F16" ->
         IF p + 2 > len THEN Fail
         ELSE LET raw == Slice(b, p, 2, junk)
              IN  Ok(p + 2, read_f16_be(IF big THEN raw ELSE Reverse(raw)), ctx, OobRange(b, p, 2))
    [] t = "F32" ->
         IF p + 4 > len THEN Fail
         ELSE LET raw == Slice(b, p, 4, junk)
              IN  Ok(p + 4, VSeq("f32", IF big THEN raw ELSE Reverse(raw)), ctx, OobRange(b, p, 4))
    [] t = "F64" ->
         IF p + 8 > len THEN Fail
         ELSE LET raw == Slice(b, p, 8, junk)
              IN  Ok(p + 8, VSeq("f64bits", IF big THEN raw ELSE Reverse(raw)), ctx, OobRange(b, p, 8))
    [] t = "BOOL" ->
         IF p + 1 > len THEN Fail
         ELSE LET byte == Rd(b, p, junk)
                  bit_pos == field.bit_start
                  v == IF bit_pos < 8 THEN ((byte \div Pow2(bit_pos)) % 2) # 0 ELSE FALSE
              IN  Ok(BitsAdvance(field, p), VBool(v),
                     SetVar(IF v THEN 1 ELSE 0), OobRange(b, p, 1))
    [] t = "BITS" ->
         IF p >= len THEN Fail
         ELSE Tail1(BitsAdvance(field, p),
                    extract_bits(Rd(b, p, junk), field.bit_start, field.bit_width),
                    OobRange(b, p, 1))
    [] t = "SKIP" ->
         DRet(SCHEMA_OK, p + (IF field.size # 0 THEN field.size ELSE 1), out0, ctx, FALSE)
    [] t = "ASCII" ->
         IF p + field.size > len THEN Fail
         ELSE LET n == IF field.size < SCHEMA_MAX_NAME_LEN THEN field.size ELSE SCHEMA_MAX_NAME_LEN - 1
              IN  Ok(p + field.size, VSeq("ascii", CStr(Slice(b, p, n, junk))), ctx, OobRange(b, p, n))
    [] t = "HEX" ->
         IF p + field.size > len THEN Fail
         ELSE LET hex_len == IF field.size < SCHEMA_MAX_NAME_LEN \div 2 THEN field.size
                             ELSE SCHEMA_MAX_NAME_LEN \div 2 - 1
              IN  Ok(p + field.size, VSeq("hex", HexChars(Slice(b, p, hex_len, junk))), ctx,
                     OobRange(b, p, hex_len))
    [] t = "BASE64" ->
         IF p + field.size > len THEN Fail
         ELSE Ok(p + field.size, VSeq("base64", Base64Chars(Slice(b, p, field.size, junk), 0)), ctx,
                 OobRange(b, p, field.size))
    [] t = "BYTES" ->
         IF p + field.size > len THEN Fail
         ELSE LET copy_len == IF field.size < SCHEMA_MAX_NAME_LEN THEN field.size ELSE SCHEMA_MAX_NAME_LEN
              IN  Ok(p + field.size, VSeq("bytes", Slice(b, p, copy_len, junk)), ctx,
                     OobRange(b, p, copy_len))
    [] t = "ENUM" ->
         IF p + field.size > len THEN Fail
         ELSE LET esize == IF field.size # 0 THEN field.size ELSE 1
                  rw == IF esize = 2 THEN 2 ELSE 1
                  raw == IF esize = 2
                         THEN (IF big THEN read_u16_be(Slice(b, p, 2, junk))
                               ELSE read_u16_le(Slice(b, p, 2, junk)))
                         ELSE read_u8(Slice(b, p, 1, junk))
                  bad == OobRange(b, p, rw)
                  li == LookupIndex(field, raw)
              IN  IF Len(field.lookup) > 0
                  THEN (IF li # 0 THEN Ok(p + esize, VStr(field.lookup[li].value), SetVar(raw), bad)
                        ELSE Ok(p + esize, VUnknown(raw), SetVar(raw), bad))
                  ELSE Tail1(p + esize, raw, bad)
    [] t \in {"UDEC", "SDEC"} ->
         IF p + 1 > len THEN Fail
         ELSE LET byte == Rd(b, p, junk)
                  hi == byte \div 16
                  whole == IF t = "SDEC" /\ hi >= 8 THEN hi - 16 ELSE hi
                  v == RAdd(R(whole), RNorm(byte % 16, 10))
              IN  Ok(p + 1, VF64(ApplyModifiers(field, v, FALSE)), ctx, OobRange(b, p, 1))
    [] OTHER -> DRet(SCHEMA_ERR_TYPE, p, out0, ctx, FALSE)

(***************************************************************************)
(* Names.  The code looks at the first character of a name; the model      *)
(* keeps the names it uses in tables.                                      *)
(***************************************************************************)
UnderscoreNames == {"_skip", "_match", "_x", "_y"}
\* name[0] == '_'
IsInternal(name) == name \in UnderscoreNames
\* if (var_name[0] == '$') var_name++
StripDollar(name) ==
  CASE name = "$msg_type" -> "msg_type"
    [] name = "$t" -> "t"
    [] OTHER -> name

(***************************************************************************)
(* schema_decode                                                           *)
(***************************************************************************)
ZeroResult == [fields |-> <<>>, field_count |-> 0, bytes_consumed |-> 0, error_code |-> 0]

\* the entries of match_list scanned by "for (j = 0; list[j] != -1 && j < 8; j++)"
ListHit(cs, v) ==
  \E j \in 1..8 : /\ \A k \in 1..j : cs.match_list[k] # -1
                  /\ cs.match_list[j] = v

CaseMatches(cs, match_val) ==
  IF cs.is_default THEN TRUE
  ELSE IF cs.match_value = match_val THEN TRUE
  ELSE IF cs.range_min # cs.range_max
       THEN match_val >= cs.range_min /\ match_val <= cs.range_max
  ELSE ListHit(cs, match_val)

\* index (1-based) of the case whose block is decoded, 0 if none: the loop
\* over the cases leaves at the first match (LastCase: the loop without
\* its break)
LastCase(field, match_val) ==
  LET hits == {c \in 1..Len(field.cases) : CaseMatches(field.cases[c], match_val)}
  IN  IF hits = {} THEN 0 ELSE CHOOSE c \in hits : \A m \in hits : c >= m
FirstCase(field, match_val) ==
  LET hits == {c \in 1..Len(field.cases) : CaseMatches(field.cases[c], match_val)}
  IN  IF hits = {} THEN 0 ELSE CHOOSE c \in hits : \A m \in hits : c <= m

LogEntry(idx, in_case, d, p0, emitted) ==
  [idx |-> idx, in_case |-> in_case, pos0 |-> p0, pos1 |-> d.pos, rc |-> d.rc,
   emitted |-> emitted, value |-> d.out.value]

\* a case block keeps every field whose valid flag is set
CaseEmits(field, d) == d.out.valid

\* the top level keeps a valid field with a non-empty name not starting with '_'
TopEmitsAnyName(field, d) == d.out.valid /\ field.name # ""
TopEmits(field, d) == d.out.valid /\ field.name # "" /\ ~IsInternal(field.name)

\* what the loop does with the outcome d of decode_field for field idx:
\* return on an error, else count the slot if it is kept.
\* st = [pos, vars, res, oob, log, rc]
AfterField(st, idx, in_case, d, emits) ==
  LET keep == d.rc = SCHEMA_OK /\ emits
      nlog == Append(st.log, LogEntry(idx, in_case, d, st.pos, keep))
  IN  IF d.rc # SCHEMA_OK
      THEN [st EXCEPT !.res.error_code = d.rc, !.rc = d.rc, !.log = nlog,
                      !.oob = st.oob \/ d.oob]
      ELSE [pos |-> d.pos, vars |-> d.vars,
            res |-> IF keep
                    THEN [st.res EXCEPT !.fields = Append(@, d.out),
                                        !.field_count = @ + 1]
                    ELSE st.res,
            oob |-> st.oob \/ d.oob, log |-> nlog, rc |-> SCHEMA_OK]

\* the loop over the fields of the selected case, from block offset f
RECURSIVE DecodeCase(_, _, _, _, _)
RECURSIVE CaseNext(_, _, _, _, _)
CaseOutcome(st, idx, field, d) == AfterField(st, idx, TRUE, d, CaseEmits(field, d))

CaseField(sch, cs, f, st, junk, field) ==
  CaseNext(sch, cs, f, junk,
           CaseOutcome(st, cs.field_start + f, field,
                       decode_field(field, buf, st.pos, st.vars, sch.endian, junk)))

CaseNext(sch, cs, f, junk, nst) ==
  IF nst.rc # SCHEMA_OK THEN nst ELSE DecodeCase(sch, cs, f + 1, nst, junk)

DecodeCase(sch, cs, f, st, junk) ==
  IF f >= cs.field_count \/ cs.field_start + f >= Len(sch.fields) THEN st
  ELSE CaseField(sch, cs, f, st, junk, sch.fields[cs.field_start + f + 1])

\* one iteration of the loop over schema->fields
TopField(idx, st, field, d) == AfterField(st, idx, FALSE, d, TopEmits(field, d))

DecodeMatch(sch, field, st, junk, c) ==
  IF c = 0 THEN st ELSE DecodeCase(sch, field.cases[c], 0, st, junk)

DecodeIteration(sch, idx, st, junk) ==
  LET field == sch.fields[idx + 1]
  IN  IF field.type = "MATCH"
      THEN DecodeMatch(sch, field, st, junk,
                       FirstCase(field, var_get(st.vars, StripDollar(field.match_var))))
      ELSE TopField(idx, st, field,
                    decode_field(field, buf, st.pos, st.vars, sch.endian, junk))

\* schema_decode entered: memset(result), pos = 0, vars = {0}
DecodeStart ==
  /\ pc = "ready"
  /\ mode = ""
  /\ pc' = "decoding"
  /\ mode' = "dec"
  /\ i' = 0 /\ pos' = 0 /\ vars' = <<>> /\ result' = ZeroResult
  /\ rc' = 0 /\ oob' = FALSE /\ log' = <<>>
  /\ UNCHANGED <<desc, lrc, adds, schema, buf, inputs, ei, epos, eres, erc, elog>>

\* decode_field was handed &result->fields[field_count] with field_count
\* at SCHEMA_MAX_FIELDS or more: call k of the log wrote its slot past the
\* end of result->fields, over field_count and the members after it
SlotOverflow(lg) ==
  \E k \in 1..Len(lg) :
    Cardinality({j \in 1..(k - 1) : lg[j].emitted}) >= SCHEMA_MAX_FIELDS

\* what field_count may hold after such a write: the count as if the array
\* went on, or the bytes of the name written over it
JunkCounts == {SCHEMA_MAX_FIELDS + 1, 28524}

\* the loop body for field i; a failing field returns from schema_decode.
\* After a write past result->fields the rest of the call is undefined:
\* the model ends the call there with any of the counts above.
DecodeStep ==
  /\ pc = "decoding"
  /\ i < Len(schema.fields)
  /\ \E junk \in JunkBytes :
       \E st \in {DecodeIteration(schema, i,
                     [pos |-> pos, vars |-> vars, res |-> result, oob |-> oob,
                      log |-> log, rc |-> SCHEMA_OK], junk)} :
           /\ pos' = st.pos /\ vars' = st.vars
           /\ oob' = st.oob /\ log' = st.log
           /\ IF SlotOverflow(st.log)
              THEN /\ \E fc \in JunkCounts : result' = [st.res EXCEPT !.field_count = fc]
                   /\ rc' = st.rc /\ pc' = "decoded" /\ i' = i
              ELSE /\ result' = st.res
                   /\ IF st.rc # SCHEMA_OK
                      THEN /\ rc' = st.rc /\ pc' = "decoded" /\ i' = i
                      ELSE /\ rc' = rc /\ pc' = "decoding" /\ i' = i + 1
  /\ UNCHANGED <<desc, lrc, adds, schema, buf, inputs, mode, ei, epos, eres, erc, elog>>

\* the loop is over: result->bytes_consumed = pos; return SCHEMA_OK
DecodeReturn ==
  /\ pc = "decoding"
  /\ i = Len(schema.fields)
  /\ result' = [result EXCEPT !.bytes_consumed = pos]
  /\ rc' = SCHEMA_OK
  /\ pc' = "decoded"
  /\ UNCHANGED <<desc, lrc, adds, schema, buf, inputs, mode, i, pos, vars, oob, log, ei, epos, eres, erc, elog>>

(***************************************************************************)
(* Encoder inputs.  An entry records which member of the value union was   *)
(* stored: k = "i64" (n) by encode_inputs_add_int, k = "f64" (n/d) by      *)
(* encode_inputs_add_double.                                               *)
(***************************************************************************)
encode_inputs_add_int(ins, name, val) ==
  IF Len(ins) >= SCHEMA_MAX_FIELDS THEN ins
  ELSE Append(ins, [name |-> name, k |-> "i64", n |-> val, d |-> 1])

encode_inputs_add_double(ins, name, val) ==
  IF Len(ins) >= SCHEMA_MAX_FIELDS THEN ins
  ELSE Append(ins, [name |-> name, k |-> "f64", n |-> val[1], d |-> val[2]])

\* index (1-based) of the first input of that name, 0 for NULL
find_input(ins, name) ==
  LET hits == {k \in 1..Len(ins) : ins[k].name = name}
  IN  IF hits = {} THEN 0 ELSE CHOOSE k \in hits : \A m \in hits : k <= m

\* input->value.f64.  Read from an entry stored as i64 it is the double
\* with the integer's bit pattern: +0.0 for 0, a positive subnormal
\* (n * 2^-1074) for 0 < n < 2^52, a NaN for -2^52 < n < 0.
InputF64(inp) ==
  IF inp.k = "f64" THEN [cls |-> "fin", r |-> <<inp.n, inp.d>>, bits |-> 0]
  ELSE IF inp.n = 0 THEN [cls |-> "fin", r |-> R(0), bits |-> 0]
  ELSE IF inp.n > 0 THEN [cls |-> "sub", r |-> R(0), bits |-> inp.n]
  ELSE [cls |-> "nan", r |-> R(0), bits |-> inp.n]

\* raw = ((value - add) / mult) * div, each step only if flagged (the
\* division also only if mult != 0).  A subnormal is absorbed by any
\* non-zero addend and rounds like 0; a NaN stays a NaN.
InverseModifiersKeepAdd(field, x) ==
  LET a == x.r
      b == IF field.has_mult /\ ~RIsZero(field.mult) THEN RDiv(a, field.mult) ELSE a
      c == IF field.has_div THEN RMul(b, field.div) ELSE b
      touched == field.has_add \/ (field.has_mult /\ ~RIsZero(field.mult)) \/ field.has_div
  IN  IF x.cls = "nan" THEN x
      ELSE IF x.cls = "sub" /\ ~RIsZero(c) THEN [cls |-> "fin", r |-> c, bits |-> 0]
      ELSE IF x.cls = "sub" /\ touched THEN [cls |-> "sub", r |-> R(0), bits |-> 0]
      ELSE [x EXCEPT !.r = c]
InverseModifiers(field, x) ==
  LET a == IF field.has_add THEN RSub(x.r, field.add) ELSE x.r
      b == IF field.has_mult /\ ~RIsZero(field.mult) THEN RDiv(a, field.mult) ELSE a
      c == IF field.has_div THEN RMul(b, field.div) ELSE b
      touched == field.has_add \/ (field.has_mult /\ ~RIsZero(field.mult)) \/ field.has_div
  IN  IF x.cls = "nan" THEN x
      ELSE IF x.cls = "sub" /\ ~RIsZero(c) THEN [cls |-> "fin", r |-> c, bits |-> 0]
      ELSE IF x.cls = "sub" /\ touched THEN [cls |-> "sub", r |-> R(0), bits |-> 0]
      ELSE [x EXCEPT !.r = c]

\* (int64_t)(raw_val + (raw_val >= 0 ? 0.5 : -0.5)); the conversion of a
\* NaN is undefined and yields junk
RoundHalfAway(x, junk) ==
  IF x.cls = "nan" THEN junk
  ELSE IF RNonNeg(x.r) THEN RTrunc(RAdd(x.r, <<1, 2>>))
  ELSE RTrunc(RSub(x.r, <<1, 2>>))

\* the size low bytes of (uint64_t)val, least significant first
RECURSIVE LowBytes(_, _)
LowBytes(val, size) ==
  IF size <= 0 THEN <<>> ELSE <<val % 256>> \o LowBytes(val \div 256, size - 1)

\* data with the bytes bs stored from index p on
Store(data, p, bs) ==
  [k \in (DOMAIN data) \cup {p + j - 1 : j \in 1..Len(bs)} |->
     IF k >= p /\ k < p + Len(bs) THEN bs[k - p + 1] ELSE data[k]]

\* data[idx] of the zero-filled result buffer
Load(data, idx) == IF idx \in DOMAIN data THEN data[idx] ELSE 0

\* write_int: returns the bytes in buffer order
write_int(val, size, endian) ==
  IF endian = ENDIAN_BIG THEN Reverse(LowBytes(val, size)) ELSE LowBytes(val, size)

\* bit k (0 = least significant) of a two's-complement integer
Bit(x, k) == (x \div Pow2(k)) % 2

\* byte_val &= ~mask; byte_val |= (int_val & ((1 << w) - 1)) << start, kept as uint8_t
MergeBits(byte_val, int_val, start, width) ==
  LET NewBit(k) == IF k >= start /\ k < start + width THEN Bit(int_val, k - start)
                   ELSE Bit(byte_val, k)
  IN  NewBit(0) + 2 * NewBit(1) + 4 * NewBit(2) + 8 * NewBit(3) + 16 * NewBit(4)
      + 32 * NewBit(5) + 64 * NewBit(6) + 128 * NewBit(7)

\* the IEEE 754 bytes (most significant first) of a double that is zero or
\* a normal dyadic number whose fraction fits the top 20 mantissa bits
RECURSIVE Log2Floor(_, _)
Log2Floor(n, d) ==
  IF n >= 2 * d THEN 1 + Log2Floor(n, 2 * d)
  ELSE IF n < d THEN Log2Floor(2 * n, d) - 1
  ELSE 0

FloatBytes(x, size) ==
  LET r == x.r
      sign == IF r[1] < 0 THEN 1 ELSE 0
      n == Abs(r[1])
      e == Log2Floor(n, r[2])
      \* fraction bits: (|x| / 2^e - 1) * 2^20
      num == IF e >= 0 THEN n ELSE n * Pow2(-e)
      den == IF e >= 0 THEN r[2] * Pow2(e) ELSE r[2]
      m20 == ((num - den) * 1048576) \div den
  IN  IF x.cls = "nan" THEN (IF size = 4 THEN <<255, 255, 255, 255>>
                             ELSE Reverse(LowBytes(x.bits, 8)))
      ELSE IF x.cls = "sub" THEN (IF size = 4 THEN <<0, 0, 0, 0>>
                                  ELSE Reverse(LowBytes(x.bits, 8)))
      ELSE IF n = 0 THEN [k \in 1..size |-> 0]
      ELSE IF size = 4
           THEN LET E == e + 127
                IN  <<sign * 128 + E \div 2, (E % 2) * 128 + m20 \div 8192,
                      (m20 \div 32) % 256, (m20 % 32) * 8>>
           ELSE LET E == e + 1023
                IN  <<sign * 128 + E \div 16, (E % 16) * 16 + m20 \div 65536,
                      (m20 \div 256) % 256, m20 % 256, 0, 0, 0, 0>>

(***************************************************************************)
(* encode_field: yields the return code, the new cursor and the new data.  *)
(***************************************************************************)
ERet(code, p, data) == [rc |-> code, pos |-> p, data |-> data]

\* default: return SCHEMA_ERR_UNSUPPORTED
UnsupportedSkipped(p, data) == ERet(SCHEMA_OK, p, data)
Unsupported(p, data) == ERet(SCHEMA_ERR_UNSUPPORTED, p, data)

encode_field(field, ins, data, p, schema_endian, junk) ==
  LET k == find_input(ins, field.name)
      x0 == IF k # 0 THEN InputF64(ins[k]) ELSE [cls |-> "fin", r |-> R(0), bits |-> 0]
      raw_val == InverseModifiers(field, x0)
      int_val == RoundHalfAway(raw_val, junk)
      endian == IF field.endian # ENDIAN_DEFAULT THEN field.endian ELSE schema_endian
      t == field.type
      Put(bs) == ERet(SCHEMA_OK, p + Len(bs), Store(data, p, bs))
      \* (int)raw_val
      whole0 == IF raw_val.cls = "nan" THEN junk ELSE RTrunc(raw_val.r)
  IN
  IF k = 0 /\ t # "SKIP" THEN ERet(SCHEMA_ERR_PARSE, p, data)
  ELSE
  CASE t \in {"U8", "S8"} -> Put(<<int_val % 256>>)
    [] t \in {"U16", "S16"} -> Put(write_int(int_val, 2, endian))
    [] t \in {"U24", "S24"} -> Put(write_int(int_val, 3, endian))
    [] t \in {"U32", "S32"} -> Put(write_int(int_val, 4, endian))
    [] t \in {"U64", "S64"} -> Put(write_int(int_val, 8, endian))
    [] t = "F32" -> Put(IF endian = ENDIAN_BIG THEN FloatBytes(raw_val, 4)
                        ELSE Reverse(FloatBytes(raw_val, 4)))
    [] t = "F64" -> Put(IF endian = ENDIAN_BIG THEN FloatBytes(raw_val, 8)
                        ELSE Reverse(FloatBytes(raw_val, 8)))
    [] t = "BOOL" -> Put(<<IF int_val # 0 THEN 1 ELSE 0>>)
    [] t = "BITS" ->
         ERet(SCHEMA_OK, IF field.consume THEN p + 1 ELSE p,
              Store(data, p, <<MergeBits(Load(data, p), int_val, field.bit_start, field.bit_width)>>))
    [] t = "SKIP" -> Put([j \in 1..field.size |-> 0])
    [] t = "UDEC" ->
         LET frac0 == IF raw_val.cls = "nan" THEN junk
                      ELSE RTrunc(RAdd(RMul(RSub(raw_val.r, R(whole0)), R(10)), <<1, 2>>))
             whole == IF whole0 > 9 THEN 9 ELSE IF whole0 < 0 THEN 0 ELSE whole0
             frac == IF frac0 > 9 THEN 9 ELSE frac0
         IN  Put(<<(whole * 16 + (frac % 16)) % 256>>)
    [] t = "SDEC" ->
         LET neg_frac == raw_val.cls # "nan" /\ raw_val.r[1] < 0
                         /\ ~RIsZero(RSub(raw_val.r, R(whole0)))
             whole1 == IF neg_frac THEN whole0 - 1 ELSE whole0
             frac0 == IF raw_val.cls = "nan" THEN junk
                      ELSE RTrunc(RAdd(RMul(RSub(raw_val.r, R(whole1)), R(10)), <<1, 2>>))
             whole == IF whole1 < -8 THEN -8 ELSE IF whole1 > 7 THEN 7 ELSE whole1
             frac == IF frac0 > 9 THEN 9 ELSE frac0
         IN  Put(<<(whole % 16) * 16 + (frac % 16)>>)
    [] OTHER -> Unsupported(p, data)

(***************************************************************************)
(* schema_encode                                                           *)
(***************************************************************************)
ZeroEncodeResult == [data |-> << >>, len |-> 0, error_code |-> 0]

\* schema_encode entered: memset(result), pos = 0
EncodeStart ==
  /\ pc = "ready"
  /\ mode = ""
  /\ pc' = "encoding"
  /\ mode' = "enc"
  /\ ei' = 0 /\ epos' = 0 /\ eres' = ZeroEncodeResult /\ erc' = 0 /\ elog' = <<>>
  /\ UNCHANGED <<desc, lrc, adds, schema, buf, inputs, i, pos, vars, result, rc, oob, log>>

\* a byte was stored at an index past uint8_t data[SCHEMA_MAX_PAYLOAD],
\* over result->len, result->error_code and what follows the result object
PastData(data) == \E k \in DOMAIN data : k >= SCHEMA_MAX_PAYLOAD

\* the loop body for field ei; a failing field returns from schema_encode.
\* After a store past result->data the rest of the call is undefined: the
\* model ends the call there, with len either the cursor or the zero the
\* store left in it.
EncodeStep ==
  /\ pc = "encoding"
  /\ ei < Len(schema.fields)
  /\ LET field == schema.fields[ei + 1]
     IN  IF IsInternal(field.name) \/ field.type = "MATCH"
         THEN /\ ei' = ei + 1
              /\ UNCHANGED <<pc, epos, eres, erc, elog>>
         ELSE \E junk \in JunkBytes :
                \E e \in {encode_field(field, inputs, eres.data, epos, schema.endian, junk)} :
                    /\ elog' = Append(elog, [idx |-> ei, pos0 |-> epos, pos1 |-> e.pos, rc |-> e.rc])
                    /\ IF PastData(e.data)
                       THEN /\ \E n \in {e.pos, 0} :
                                 eres' = [eres EXCEPT !.data = e.data, !.len = n]
                            /\ erc' = e.rc /\ pc' = "encoded" /\ epos' = e.pos
                            /\ UNCHANGED ei
                       ELSE IF e.rc # SCHEMA_OK
                       THEN /\ eres' = [eres EXCEPT !.error_code = e.rc]
                            /\ erc' = e.rc /\ pc' = "encoded"
                            /\ UNCHANGED <<ei, epos>>
                       ELSE /\ eres' = [eres EXCEPT !.data = e.data]
                            /\ epos' = e.pos /\ ei' = ei + 1
                            /\ UNCHANGED <<pc, erc>>
  /\ UNCHANGED <<desc, lrc, adds, schema, buf, inputs, mode, i, pos, vars, result, rc, oob, log>>

\* the loop is over: result->len = pos; return SCHEMA_OK
EncodeReturn ==
  /\ pc = "encoding"
  /\ ei = Len(schema.fields)
  /\ eres' = [eres EXCEPT !.len = epos]
  /\ erc' = SCHEMA_OK
  /\ pc' = "encoded"
  /\ UNCHANGED <<desc, lrc, adds, schema, buf, inputs, mode, i, pos, vars, result, rc, oob, log, ei, epos, elog>>

(***************************************************************************)
(* Calls chained by a caller, as the round-trip tests do                   *)
(***************************************************************************)
\* schema_decode(&s, enc.data, enc.len, &dec) after a successful encode
DecodeEncoded ==
  /\ pc = "encoded"
  /\ mode = "enc"
  /\ erc = SCHEMA_OK
  /\ buf' = [k \in 1..eres.len |-> Load(eres.data, k - 1)]
  /\ pc' = "decoding"
  /\ mode' = "encdec"
  /\ i' = 0 /\ pos' = 0 /\ vars' = <<>> /\ result' = ZeroResult
  /\ rc' = 0 /\ oob' = FALSE /\ log' = <<>>
  /\ UNCHANGED <<desc, lrc, adds, schema, inputs, ei, epos, eres, erc, elog>>

\* the decoded numeric values, added in order by encode_inputs_add_double,
\* which adds nothing once the map holds SCHEMA_MAX_FIELDS entries
IsNumeric(f) == f.value.k = "f64"
InputsOfFields(fs) ==
  LET nums == SelectSeq(fs, IsNumeric)
  IN  [j \in 1..Min(Len(nums), SCHEMA_MAX_FIELDS) |->
         encode_inputs_add_double(<<>>, nums[j].name, <<nums[j].value.n, nums[j].value.d>>)[1]]

\* schema_encode of the values a successful decode produced
EncodeDecoded ==
  /\ pc = "decoded"
  /\ mode = "dec"
  /\ rc = SCHEMA_OK
  /\ inputs' = InputsOfFields(result.fields)
  /\ pc' = "encoding"
  /\ mode' = "decenc"
  /\ ei' = 0 /\ epos' = 0 /\ eres' = ZeroEncodeResult /\ erc' = 0 /\ elog' = <<>>
  /\ UNCHANGED <<desc, lrc, adds, schema, buf, i, pos, vars, result, rc, oob, log>>

(***************************************************************************)
(* schema_init, schema_add_field                                           *)
(***************************************************************************)
\* memset(schema, 0); schema->endian = ENDIAN_BIG
schema_init == [endian |-> ENDIAN_BIG, fields |-> <<>>]

\* if (field_count < SCHEMA_MAX_FIELDS) fields[field_count++] = *field
schema_add_fieldUnchecked(sch, field) == [sch EXCEPT !.fields = Append(@, field)]
schema_add_field(sch, field) ==
  IF Len(sch.fields) < SCHEMA_MAX_FIELDS THEN [sch EXCEPT !.fields = Append(@, field)] ELSE sch

(***************************************************************************)
(* Binary descriptors.  data is the descriptor, off a 0-based offset.      *)
(***************************************************************************)
BINARY_TYPE_UINT == 0
BINARY_TYPE_SINT == 1
BINARY_TYPE_FLOAT == 2
BINARY_TYPE_BYTES == 3
BINARY_TYPE_BOOL == 4
BINARY_TYPE_ENUM == 5
BINARY_TYPE_BITFIELD == 6
BINARY_TYPE_MATCH == 7
BINARY_TYPE_SKIP == 8

binary_type_to_field_type(type_code, size) ==
  CASE type_code = BINARY_TYPE_UINT /\ size = 1 -> "U8"
    [] type_code = BINARY_TYPE_UINT /\ size = 2 -> "U16"
    [] type_code = BINARY_TYPE_UINT /\ size = 3 -> "U24"
    [] type_code = BINARY_TYPE_UINT /\ size = 4 -> "U32"
    [] type_code = BINARY_TYPE_UINT /\ size = 8 -> "U64"
    [] type_code = BINARY_TYPE_SINT /\ size = 1 -> "S8"
    [] type_code = BINARY_TYPE_SINT /\ size = 2 -> "S16"
    [] type_code = BINARY_TYPE_SINT /\ size = 3 -> "S24"
    [] type_code = BINARY_TYPE_SINT /\ size = 4 -> "S32"
    [] type_code = BINARY_TYPE_SINT /\ size = 8 -> "S64"
    [] type_code = BINARY_TYPE_FLOAT /\ size = 2 -> "F16"
    [] type_code = BINARY_TYPE_FLOAT /\ size = 4 -> "F32"
    [] type_code = BINARY_TYPE_FLOAT /\ size \notin {2, 4} -> "F64"
    [] type_code = BINARY_TYPE_BOOL -> "BOOL"
    [] type_code = BINARY_TYPE_BITFIELD -> "BITS"
    [] type_code = BINARY_TYPE_SKIP -> "SKIP"
    [] type_code = BINARY_TYPE_BYTES -> "BYTES"
    [] type_code = BINARY_TYPE_MATCH -> "MATCH"
    [] OTHER -> "U8"

RECURSIVE Pow10(_)
Pow10(n) == IF n <= 0 THEN 1 ELSE 10 * Pow10(n - 1)

\* 10^exp for the signed byte exp, with three codes for powers of 1/2
binary_exp_to_mult(exp) ==
  LET signed_exp == IF exp > 127 THEN exp - 256 ELSE exp
  IN  IF exp = 0 THEN R(1)
      ELSE IF exp = 129 THEN <<1, 2>>
      ELSE IF exp = 130 THEN <<1, 4>>
      ELSE IF exp = 132 THEN <<1, 16>>
      ELSE IF signed_exp > 0 THEN R(Pow10(signed_exp))
      ELSE <<1, Pow10(-signed_exp)>>

HexDigits == <<"0", "1", "2", "3", "4", "5", "6", "7", "8", "9", "a", "b", "c", "d", "e", "f">>

HexDigit(n) == HexDigits[(n % 16) + 1]

\* the IPSO names, else snprintf("field_%04x", id)
ipso_to_name(id) ==
  CASE id = 3303 -> "temperature"
    [] id = 3304 -> "humidity"
    [] id = 3315 -> "pressure"
    [] id = 3316 -> "voltage"
    [] id = 3317 -> "current"
    [] id = 3328 -> "power"
    [] id = 3330 -> "distance"
    [] id = 3301 -> "illuminance"
    [] OTHER -> "field_" \o HexDigit(id \div 4096) \o HexDigit(id \div 256)
                \o HexDigit(id \div 16) \o HexDigit(id)

\* the characters the descriptors of the model use in lookup strings
Chr(b) ==
  CASE b = 65 -> "A"
    [] b = 66 -> "B"
    [] b = 67 -> "C"
    [] OTHER -> "?"

RECURSIVE StrOf(_)
StrOf(bytes) == IF bytes = <<>> THEN "" ELSE Chr(Head(bytes)) \o StrOf(Tail(bytes))

\* j < lookup_count && j < SCHEMA_MAX_LOOKUP && offset < len
LookupGoesOnUncapped(j, lookup_count, off, len) == j < lookup_count /\ off < len
LookupGoesOn(j, lookup_count, off, len) ==
  j < lookup_count /\ j < SCHEMA_MAX_LOOKUP /\ off < len

\* one entry of the lookup table; st = [f, off, over], over when the loop
\* was left
LoadLookupEntry(data, st) ==
  IF st.off + 1 >= Len(data) THEN [st EXCEPT !.off = @ + 1, !.over = TRUE]
  ELSE LET key == data[st.off + 1]
           str_len == data[st.off + 2]
           off2 == st.off + 2
           copy_len == IF str_len < SCHEMA_MAX_NAME_LEN - 1 THEN str_len
                       ELSE SCHEMA_MAX_NAME_LEN - 1
           value == StrOf(CStr(SubSeq(data, off2 + 1, off2 + copy_len)))
       IN  IF off2 + str_len > Len(data) THEN [st EXCEPT !.off = off2, !.over = TRUE]
           ELSE [f |-> [st.f EXCEPT !.lookup = Append(@, [key |-> key, value |-> value])],
                 off |-> off2 + str_len, over |-> FALSE]

\* the iterations lo .. hi - 1 of the lookup-table loop in order, the range
\* taken in halves
RECURSIVE LoadLookupRange(_, _, _, _, _)
LoadLookupRange(data, st, lo, hi, lookup_count) ==
  IF st.over \/ lo >= hi THEN st
  ELSE IF hi = lo + 1
       THEN IF LookupGoesOn(lo, lookup_count, st.off, Len(data)) THEN LoadLookupEntry(data, st)
            ELSE [st EXCEPT !.over = TRUE]
  ELSE LoadLookupRange(data, LoadLookupRange(data, st, lo, (lo + hi) \div 2, lookup_count),
                       (lo + hi) \div 2, hi, lookup_count)

\* the lookup-table loop from entry j on; st = [f, off].  An iteration that
\* runs starts below len and moves the offset on, so none runs from index
\* Len(data) on.
LoadLookup(data, st, j, lookup_count) ==
  LET r == LoadLookupRange(data, [f |-> st.f, off |-> st.off, over |-> FALSE],
                           j, Min(lookup_count, Len(data)), lookup_count)
  IN  [f |-> r.f, off |-> r.off]

\* if (type_code == BINARY_TYPE_BITFIELD && offset < len) ...
BitfieldPart(data, st, type_code) ==
  IF type_code = BINARY_TYPE_BITFIELD /\ st.off < Len(data)
  THEN LET bf_byte == data[st.off + 1]
           f1 == [st.f EXCEPT !.bit_start = (bf_byte \div 16) % 16, !.bit_width = bf_byte % 16]
       IN  IF st.off + 1 < Len(data) /\ data[st.off + 2] = 1
           THEN [f |-> [f1 EXCEPT !.consume = TRUE], off |-> st.off + 2]
           ELSE [f |-> f1, off |-> st.off + 1]
  ELSE st

\* the add marker 0xA0 and its 16-bit little-endian value in hundredths
AddPart(data, st) ==
  IF st.off < Len(data) /\ data[st.off + 1] = 160
  THEN IF st.off + 2 < Len(data)
       THEN [f |-> field_set_add(st.f, RNorm(read_s16_le(SubSeq(data, st.off + 2, st.off + 3)), 100)),
             off |-> st.off + 3]
       ELSE [st EXCEPT !.off = @ + 1]
  ELSE st

\* if (has_lookup && offset < len) ...
LookupPart(data, st, has_lookup) ==
  IF has_lookup /\ st.off < Len(data)
  THEN LoadLookup(data, [st EXCEPT !.off = @ + 1], 0, data[st.off + 1])
  ELSE st

\* one field record from offset off on: [added, f, off]; added is FALSE
\* when the loop was left by a break
LoadField(data, off) ==
  LET type_byte == data[off + 1]
      has_lookup == type_byte >= 128
      type_code == (type_byte \div 16) % 8
      size == type_byte % 16
      f0 == [ZeroField EXCEPT !.type = binary_type_to_field_type(type_code, size), !.size = size]
      mult == binary_exp_to_mult(data[off + 2])
      f1 == IF mult # R(1) THEN field_set_mult(f0, mult) ELSE f0
      field_id == data[off + 3] + 256 * data[off + 4]
      f2 == [f1 EXCEPT !.name = ipso_to_name(field_id)]
  IN  IF off + 1 >= Len(data) \/ off + 3 >= Len(data)
      THEN [added |-> FALSE, f |-> ZeroField, off |-> off]
      ELSE [added |-> TRUE] @@
           LookupPart(data, AddPart(data, BitfieldPart(data, [f |-> f2, off |-> off + 4], type_code)),
                      has_lookup)

\* for (i = 0; i < field_count && offset < len; i++)
\* st = [off, schema, over]: the offset and the schema before an iteration,
\* over when the loop was left.  LoadNext is one iteration, r its record.
LoadNext(st, r) ==
  IF ~r.added THEN [st EXCEPT !.over = TRUE]
  ELSE [off |-> r.off, schema |-> schema_add_field(st.schema, r.f), over |-> FALSE]

\* the iterations lo .. hi - 1 in order, the range taken in halves.  An
\* iteration that runs starts below len and moves the offset on, so none
\* runs from index Len(data) on.
RECURSIVE LoadFields(_, _, _, _)
LoadFields(data, st, lo, hi) ==
  IF st.over \/ lo >= hi THEN st
  ELSE IF hi = lo + 1
       THEN IF st.off < Len(data) THEN LoadNext(st, LoadField(data, st.off))
            ELSE [st EXCEPT !.over = TRUE]
  ELSE LoadFields(data, LoadFields(data, st, lo, (lo + hi) \div 2), (lo + hi) \div 2, hi)

\* data[0] == 'P' && data[1] == 'S' on a descriptor of at least 5 bytes
HeaderOkAnyMagic(data) == Len(data) >= 5
HeaderOk(data) == Len(data) >= 5 /\ data[1] = 80 /\ data[2] = 83

\* schema_load_binary: [rc, schema]; sch is the caller's schema object.
\* schema->version is not part of the model's schema record.
schema_load_binary(sch, data) ==
  IF ~HeaderOk(data) THEN [rc |-> SCHEMA_ERR_PARSE, schema |-> sch]
  ELSE [rc |-> SCHEMA_OK,
        schema |-> LoadFields(data,
                              [off |-> 5,
                               schema |-> [schema_init EXCEPT
                                             !.endian = IF data[4] % 2 = 1 THEN ENDIAN_LITTLE
                                                        ELSE ENDIAN_BIG],
                               over |-> FALSE],
                              0, Min(data[5], Len(data))).schema]

(***************************************************************************)
(* The indices of data (from 0) that schema_load_binary reads, statement   *)
(* by statement under the same conditions                                  *)
(***************************************************************************)
\* data[offset++] for the key and the length, memcpy of copy_len bytes
ReadsLookupEntry(data, st, k, lookup_count) ==
  IF st.over \/ ~LookupGoesOn(k, lookup_count, st.off, Len(data)) THEN {}
  ELSE IF st.off + 1 >= Len(data) THEN {st.off}
  ELSE LET str_len == data[st.off + 2]
           copy_len == IF str_len < SCHEMA_MAX_NAME_LEN - 1 THEN str_len
                       ELSE SCHEMA_MAX_NAME_LEN - 1
       IN  IF st.off + 2 + str_len > Len(data) THEN {st.off, st.off + 1}
           ELSE {st.off, st.off + 1} \cup ((st.off + 2)..(st.off + 1 + copy_len))

\* entry k is read at the offset the entries before it leave; an entry that
\* is read starts below len, so none is read from index Len(data) on
ReadsLookup(data, off, j, lookup_count) ==
  UNION { ReadsLookupEntry(data,
                           LoadLookupRange(data, [f |-> [lookup |-> <<>>], off |-> off,
                                                  over |-> FALSE], j, k, lookup_count),
                           k, lookup_count) :
          k \in j..(Min(lookup_count, Len(data)) - 1) }

\* bf_byte, and data[offset] == 0x01 when offset < len
ReadsBitfieldPart(data, off, type_code) ==
  IF type_code = BINARY_TYPE_BITFIELD /\ off < Len(data)
  THEN {off} \cup (IF off + 1 < Len(data) THEN {off + 1} ELSE {})
  ELSE {}

\* data[offset] == 0xA0 when offset < len, then the two bytes of add_val
ReadsAddPart(data, off) ==
  IF off < Len(data)
  THEN {off} \cup (IF data[off + 1] = 160 /\ off + 2 < Len(data) THEN {off + 1, off + 2} ELSE {})
  ELSE {}

\* lookup_count and the entries
ReadsLookupPart(data, off, has_lookup) ==
  IF has_lookup /\ off < Len(data)
  THEN {off} \cup ReadsLookup(data, off + 1, 0, data[off + 1])
  ELSE {}

\* one field record from offset off on
ReadsField(data, off) ==
  LET type_byte == data[off + 1]
      type_code == (type_byte \div 16) % 8
      st1 == BitfieldPart(data, [f |-> ZeroField, off |-> off + 4], type_code)
      st2 == AddPart(data, st1)
  IN  IF off + 1 >= Len(data) THEN {off}
      ELSE IF off + 3 >= Len(data) THEN {off, off + 1}
      ELSE {off, off + 1, off + 2, off + 3}
           \cup ReadsBitfieldPart(data, off + 4, type_code)
           \cup ReadsAddPart(data, st1.off)
           \cup ReadsLookupPart(data, st2.off, type_byte >= 128)

\* the loop over the records: iteration k reads its record from the offset
\* the iterations before it leave, if the loop gets that far.  An iteration
\* that runs starts below len and moves the offset on, so none runs from
\* index Len(data) on.
ReadsIteration(data, st) ==
  IF ~st.over /\ st.off < Len(data) THEN ReadsField(data, st.off) ELSE {}

ReadsFields(data, st, n) ==
  UNION { ReadsIteration(data, LoadFields(data, st, 0, k)) : k \in 0..(Min(n, Len(data)) - 1) }

\* len < 5 returns before any read; data[1] is read when data[0] is 'P'
ReadsOfLoad(data) ==
  IF Len(data) < 5 THEN {}
  ELSE IF data[1] # 80 THEN {0}
  ELSE IF data[2] # 83 THEN {0, 1}
  ELSE {0, 1, 2, 3, 4}
       \cup ReadsFields(data, [off |-> 5, schema |-> schema_init, over |-> FALSE], data[5])

\* the caller loads the descriptor, then decodes or encodes with the schema
LoadBinary ==
  /\ pc = "ready"
  /\ mode = "load"
  /\ \E r \in {schema_load_binary(schema, desc)} :
       /\ lrc' = r.rc
       /\ schema' = r.schema
       /\ mode' = IF r.rc = SCHEMA_OK THEN "" ELSE "loadfailed"
  /\ UNCHANGED <<desc, adds, buf, inputs, pc, i, pos, vars, result, rc, oob, log,
                 ei, epos, eres, erc, elog>>

(***************************************************************************)
(* The schemas, payloads and input maps the model starts from              *)
(***************************************************************************)
MaxFields == 2        \* fields per schema in the general family
MaxPayloadLen == 3    \* payload bytes in the general family

RECURSIVE SeqsUpTo(_, _)
SeqsUpTo(S, n) ==
  IF n = 0 THEN {<<>>}
  ELSE LET shorter == SeqsUpTo(S, n - 1)
       IN  shorter \cup {Append(q, x) : q \in {r \in shorter : Len(r) = n - 1}, x \in S}

MkSchema(e, fs) == [endian |-> e, fields |-> fs]
Start(sch, payload, ins) ==
  [schema |-> sch, buf |-> payload, inputs |-> ins, desc |-> <<>>, mode |-> ""]

\* General family: every field type, short payloads
LibA ==
  { field_u8("a"), field_u8(""), field_set_var(field_u8("_x"), "t"),
    field_u16("b", ENDIAN_DEFAULT), field_s16("b", ENDIAN_LITTLE),
    field_u24("c", ENDIAN_BIG), field_s32("d", ENDIAN_BIG),
    field_bits("p", 4, 4, FALSE), field_bits("q", 0, 4, TRUE),
    field_bool("f", 0, TRUE), field_bool("g", 7, FALSE),
    field_skip(0), field_skip(2), field_raw("s", "SKIP", 1),
    field_ascii("n", 2), field_hex("x", 1), field_raw("y", "BASE64", 3),
    field_enum("e", 0), field_add_lookup(field_enum("e", 1), 10, "ten"),
    field_raw("u", "UDEC", 1), field_raw("o", "OBJECT", 0) }

PatternA == <<245, 10, 60, 129, 7, 200, 33, 90>>
PatternB == <<0, 255, 1, 2, 3, 4, 5, 6>>
PayloadsA == {SubSeq(PatternA, 1, n) : n \in 0..MaxPayloadLen}
             \cup {SubSeq(PatternB, 1, n) : n \in 0..MaxPayloadLen}

FamilyA ==
  { Start(MkSchema(ENDIAN_BIG, fs), p, <<>>) :
      fs \in (SeqsUpTo(LibA, MaxFields) \ {<<>>}), p \in PayloadsA }

\* Wide family: 32/64-bit and IEEE fields on payloads that hold them
CasesW ==
  { <<field_u32("d", ENDIAN_BIG), <<18, 52, 86, 120>>>>,
    <<field_u32("d", ENDIAN_LITTLE), <<255, 255, 255, 63>>>>,
    <<field_u32("d", ENDIAN_DEFAULT), <<1, 2, 3>>>>,
    <<field_s32("d", ENDIAN_LITTLE), <<1, 0, 0, 192>>>>,
    <<field_u64("w", ENDIAN_BIG), <<0, 0, 0, 0, 0, 0, 1, 2>>>>,
    <<field_u64("w", ENDIAN_BIG), <<1, 2, 3, 4>>>>,
    <<field_s64("w", ENDIAN_LITTLE), <<3, 1, 0, 0, 0, 0, 0, 0>>>>,
    <<field_s64("w", ENDIAN_BIG), <<255, 255, 255, 255, 255, 255, 255>>>>,
    <<field_f16("h", ENDIAN_BIG), <<60, 0>>>>,
    <<field_f16("h", ENDIAN_LITTLE), <<0, 124>>>>,
    <<field_f16("h", ENDIAN_BIG), <<60>>>>,
    <<field_f32("g", ENDIAN_BIG), <<63, 192, 0, 0>>>>,
    <<field_f32("g", ENDIAN_BIG), <<63, 192>>>>,
    <<field_f64("k", ENDIAN_LITTLE), <<0, 0, 0, 0, 0, 0, 240, 63>>>>,
    <<field_f64("k", ENDIAN_BIG), <<64, 9, 33, 251>>>> }

FamilyW == { Start(MkSchema(ENDIAN_BIG, <<c[1]>>), c[2], <<>>) : c \in CasesW }

\* Match family: the schema of test_match and variations of it
MaxMatchPayloadLen == 6

NoList == <<-1, -1, -1, -1, -1, -1, -1, -1>>
CaseValue(v, start, count) ==
  [NoCase EXCEPT !.match_value = v, !.match_list = NoList,
                 !.field_start = start, !.field_count = count]
CaseDefault(start, count) ==
  [NoCase EXCEPT !.is_default = TRUE, !.match_list = NoList,
                 !.field_start = start, !.field_count = count]
CaseRange(lo, hi, start, count) ==
  [NoCase EXCEPT !.match_value = -1, !.match_list = NoList, !.range_min = lo, !.range_max = hi,
                 !.field_start = start, !.field_count = count]
CaseList(l, start, count) ==
  [NoCase EXCEPT !.match_value = -1, !.match_list = l,
                 !.field_start = start, !.field_count = count]

MatchField(var, cs) == [field_raw("_match", "MATCH", 0) EXCEPT !.match_var = var, !.cases = cs]

MatchLib ==
  { MatchField("$msg_type", <<CaseValue(1, 2, 1), CaseValue(2, 3, 1)>>),
    MatchField("msg_type", <<CaseRange(1, 2, 2, 2)>>),
    MatchField("$msg_type", <<CaseList(<<2, 1, -1, -1, -1, -1, -1, -1>>, 3, 1)>>),
    MatchField("$msg_type", <<CaseValue(2, 2, 1), CaseDefault(3, 1)>>),
    MatchField("$msg_type", <<CaseDefault(2, 1), CaseValue(2, 3, 1)>>),
    MatchField("$msg_type", <<[CaseList(<<3, -1, -1, -1, -1, -1, -1, -1>>, 2, 1)
                                 EXCEPT !.range_min = 1, !.range_max = 2]>>) }

HeadM == field_set_var(field_u8("msg_type"), "msg_type")
CaseLib1 == { field_set_mult(field_s16("temperature", ENDIAN_BIG), <<1, 2>>), field_u8("_x") }
CaseLib2 == { field_u8("humidity") }

PatternsM == { <<1, 9, 41, 9, 41, 100, 0, 0>>, <<2, 100, 9, 41, 100, 0, 0, 0>>,
               <<3, 1, 2, 3, 4, 5, 6, 7>> }
PayloadsM == { SubSeq(pt, 1, n) : pt \in PatternsM, n \in 0..MaxMatchPayloadLen }

FamilyM ==
  { Start(MkSchema(ENDIAN_BIG, <<HeadM, m, f1, f2>>), p, <<>>) :
      m \in MatchLib, f1 \in CaseLib1, f2 \in CaseLib2, p \in PayloadsM }

\* Round-trip family: plain integer fields and an input value for each
IntField(type, name, e) == [field_raw(name, type, IntWidth(type)) EXCEPT !.endian = e]

TypesR == {"U8", "S8", "U16", "S16", "U24", "S24", "U32", "S32"}
EndiansR(type) == IF IntWidth(type) = 1 THEN {ENDIAN_DEFAULT}
                  ELSE {ENDIAN_DEFAULT, ENDIAN_BIG, ENDIAN_LITTLE}
ValuesR(type) ==
  CASE type = "U8" -> {0, 255}
    [] type = "S8" -> {-128, 127}
    [] type = "U16" -> {258, 65535}
    [] type = "S16" -> {-32768, 513}
    [] type = "U24" -> {197121, 16777215}
    [] type = "S24" -> {-100, 8388607}
    [] type = "U32" -> {16909060, 1073741823}
    [] type = "S32" -> {-1073741823, 305419896}

AddInput(kind, ins, name, v) ==
  IF kind = "i64" THEN encode_inputs_add_int(ins, name, v)
  ELSE encode_inputs_add_double(ins, name, R(v))

FamilyR1 ==
  UNION { { Start(MkSchema(se, <<IntField(t, "a", fe)>>), <<>>, AddInput(kind, <<>>, "a", v)) :
              se \in {ENDIAN_BIG, ENDIAN_LITTLE}, fe \in EndiansR(t),
              kind \in {"i64", "f64"}, v \in ValuesR(t) } : t \in TypesR }

PairsR ==
  { <<IntField("U8", "a", ENDIAN_DEFAULT), IntField("S16", "b", ENDIAN_LITTLE)>>,
    <<IntField("S24", "a", ENDIAN_DEFAULT), IntField("U16", "b", ENDIAN_BIG)>>,
    <<IntField("S8", "a", ENDIAN_DEFAULT), IntField("U8", "b", ENDIAN_DEFAULT)>> }

\* both inputs, in either order, or only one of them
InputsR2(fs) ==
  UNION { { AddInput(kind, AddInput(kind, <<>>, "a", va), "b", vb),
            AddInput(kind, AddInput(kind, <<>>, "b", vb), "a", va),
            AddInput(kind, <<>>, "a", va),
            AddInput(kind, <<>>, "b", vb) } :
          kind \in {"i64", "f64"}, va \in ValuesR(fs[1].type), vb \in ValuesR(fs[2].type) }

FamilyR2 ==
  UNION { { Start(MkSchema(se, fs), <<>>, ins) :
              se \in {ENDIAN_BIG, ENDIAN_LITTLE}, ins \in InputsR2(fs) } : fs \in PairsR }

\* Modifier family: integer fields with mult / div / add, payloads of
\* exactly the schema's length
WithMods(f, m, d, a) ==
  LET f1 == IF m = <<>> THEN f ELSE field_set_mult(f, m[1])
      f2 == IF d = <<>> THEN f1 ELSE field_set_div(f1, d[1])
  IN  IF a = <<>> THEN f2 ELSE field_set_add(f2, a[1])

MultsD == {<<>>, <<R(2)>>, <<(<<1, 2>>)>>, <<(<<-1, 4>>)>>, <<R(0)>>}
DivsD == {<<>>, <<R(2)>>, <<R(0)>>}
AddsD == {<<>>, <<R(1)>>, <<(<<-1, 2>>)>>}

CasesD ==
  { <<IntField("U8", "a", ENDIAN_DEFAULT), pl>> : pl \in {<<0>>, <<1>>, <<77>>, <<128>>, <<255>>} }
  \cup { <<IntField("S8", "a", ENDIAN_DEFAULT), pl>> : pl \in {<<0>>, <<1>>, <<77>>, <<128>>, <<255>>} }
  \cup { <<IntField(t, "a", e), pl>> :
           t \in {"U16", "S16"}, e \in {ENDIAN_DEFAULT, ENDIAN_LITTLE},
           pl \in {<<0, 0>>, <<1, 2>>, <<127, 255>>, <<128, 0>>, <<0, 128>>, <<255, 255>>} }
  \cup { <<IntField(t, "a", ENDIAN_BIG), pl>> :
           t \in {"U24", "S24"}, pl \in {<<1, 2, 3>>, <<128, 0, 0>>, <<255, 255, 254>>} }
  \cup { <<IntField("U32", "a", ENDIAN_DEFAULT), <<1, 255, 255, 255>> >>,
         <<IntField("U32", "a", ENDIAN_LITTLE), <<254, 255, 255, 1>> >>,
         <<IntField("S32", "a", ENDIAN_DEFAULT), <<255, 255, 255, 254>> >>,
         <<IntField("S32", "a", ENDIAN_LITTLE), <<1, 0, 0, 254>> >> }

FamilyD1 ==
  { Start(MkSchema(ENDIAN_BIG, <<WithMods(c[1], m, d, a)>>), c[2], <<>>) :
      c \in CasesD, m \in MultsD, d \in DivsD, a \in AddsD }

PairsD ==
  { <<WithMods(IntField("U8", "a", ENDIAN_DEFAULT), <<(<<1, 2>>)>>, <<>>, <<>>),
      WithMods(IntField("S16", "b", ENDIAN_LITTLE), <<>>, <<R(2)>>, <<R(1)>>)>>,
    <<WithMods(IntField("S8", "a", ENDIAN_DEFAULT), <<R(2)>>, <<R(2)>>, <<(<<-1, 2>>)>>),
      WithMods(IntField("U16", "b", ENDIAN_DEFAULT), <<(<<-1, 4>>)>>, <<>>, <<>>)>>,
    <<WithMods(IntField("U8", "a", ENDIAN_DEFAULT), <<>>, <<R(0)>>, <<>>),
      WithMods(IntField("U16", "b", ENDIAN_DEFAULT), <<R(0)>>, <<>>, <<R(1)>>)>> }

FamilyD2 ==
  { Start(MkSchema(se, fs), <<x, y, z>>, <<>>) :
      se \in {ENDIAN_BIG, ENDIAN_LITTLE}, fs \in PairsD,
      x \in {0, 77, 255}, y \in {1, 128, 255}, z \in {0, 127, 254} }

\* Encoder family: fields the encoder writes, fields it does not support
\* and an internal one, with an input for every name or for all but "a"
LibE ==
  { field_u8("a"), field_u16("b", ENDIAN_DEFAULT), field_hex("x", 1), field_ascii("n", 2),
    field_enum("e", 1), field_bytes_type("y", 2), field_raw("y", "BASE64", 3),
    field_hex("_x", 1) }

RECURSIVE InputsFor(_)
InputsFor(names) ==
  IF names = <<>> THEN <<>>
  ELSE encode_inputs_add_double(InputsFor(SubSeq(names, 1, Len(names) - 1)),
                                names[Len(names)], R(1))

FamilyE ==
  { Start(MkSchema(ENDIAN_BIG, fs), <<>>, InputsFor(names)) :
      fs \in {q \in SeqsUpTo(LibE, 2) : q # <<>>},
      names \in {<<"a", "b", "x", "n", "e", "y", "_x">>, <<"b", "x", "n", "e", "y", "_x">>} }

\* Family L: binary descriptors.  The caller's schema object holds one field
\* before the load; the payload decoded after a successful load is fixed.
StartLoad(d) ==
  [Start(MkSchema(ENDIAN_LITTLE, <<field_u8("a")>>), <<1, 2, 3>>, <<>>)
     EXCEPT !.desc = d, !.mode = "load"]

\* 'P' 'S' version flags field_count
Header(flags, n) == <<80, 83, 1, flags, n>>

\* field records: type byte, exponent, id (little-endian), optional parts
RecS16 == <<18, 254, 231, 12>>
RecU8 == <<1, 129, 232, 12>>
RecU16 == <<2, 0, 244, 12>>
RecBits == <<97, 0, 52, 18, 68, 1>>
RecBitsNoConsume == <<97, 0, 52, 18, 68>>
RecAdd == <<18, 0, 231, 12, 160, 156, 255>>
RecLookup == <<129, 0, 52, 18, 2, 0, 1, 65, 1, 2, 66, 67>>
RecEnum == <<81, 0, 52, 18>>
LibL == {RecS16, RecU8, RecU16, RecBits, RecBitsNoConsume, RecAdd, RecLookup, RecEnum}


Prefixes(d) == {SubSeq(d, 1, n) : n \in 0..Len(d)}

MaxRecords == 2

\* whole descriptors, each with every truncation, and with a wrong magic
DescriptorsL ==
  UNION { Prefixes(Header(flags, Len(recs)) \o Concat(recs)) :
            flags \in {0, 1}, recs \in SeqsUpTo(LibL, MaxRecords) }
BadMagic(d) == {[d EXCEPT ![1] = 81], [d EXCEPT ![2] = 80]}
FamilyL ==
  {StartLoad(d) : d \in DescriptorsL}
  \cup UNION { {StartLoad(b) : b \in BadMagic(d)} : d \in {q \in DescriptorsL : Len(q) >= 2} }

\* Family T: one record of each type byte, complete
FamilyT == {StartLoad(Header(0, 1) \o <<tb, 0, 52, 18>>) : tb \in 0..255}

\* Family F: schemas built field by field up to the capacity
\* schema_init after k calls of schema_add_field, of which the first
\* SCHEMA_MAX_FIELDS add a field
Filled(k) ==
  [schema_init EXCEPT !.fields = [j \in 1..Min(k, SCHEMA_MAX_FIELDS) |-> field_u8("a")]]

MaxAdds == 3
AddedFields == {field_u8("b"), field_u16("c", ENDIAN_DEFAULT)}
FamilyF ==
  {[Start(Filled(k), <<>>, <<>>) EXCEPT !.mode = "build"] :
     k \in {0, SCHEMA_MAX_FIELDS - 2, SCHEMA_MAX_FIELDS - 1, SCHEMA_MAX_FIELDS}}

\* the caller adds one more field to the schema it is building
AddField ==
  /\ pc = "ready"
  /\ mode = "build"
  /\ adds < MaxAdds
  /\ \E f \in AddedFields : schema' = schema_add_field(schema, f)
  /\ adds' = adds + 1
  /\ UNCHANGED <<desc, lrc, mode, buf, inputs, pc, i, pos, vars, result, rc, oob, log,
                 ei, epos, eres, erc, elog>>

\* Family K: one field with a lookup table, keys hit and missed
WithLookup(f) == field_add_lookup(field_add_lookup(f, 0, "A"), 1, "BC")
LibK ==
  {WithLookup(field_u8("m")),
   WithLookup(field_set_mult(field_u8("m"), <<1, 2>>)),
   WithLookup(field_set_add(field_u8("m"), R(1))),
   WithLookup(field_set_var(field_u8("m"), "v")),
   WithLookup(field_enum("e", 1)),
   WithLookup(field_set_mult(field_enum("e", 1), <<1, 2>>))}
FamilyK ==
  {Start(MkSchema(ENDIAN_BIG, <<f>>), <<b>>, <<>>) : f \in LibK, b \in {0, 1, 5, 10}}

\* Family N: a match whose case block holds another match
SchemaN ==
  MkSchema(ENDIAN_BIG,
           <<HeadM,
             MatchField("$msg_type", <<CaseValue(1, 2, 2)>>),
             MatchField("$msg_type", <<CaseValue(1, 3, 1), CaseDefault(3, 1)>>),
             field_u8("humidity")>>)
FamilyN == {Start(SchemaN, p, <<>>) : p \in {<<1>>, <<1, 100>>, <<1, 100, 7>>, <<2, 100>>}}

\* Family V: fields that bind variables, some twice under one name
LibV ==
  {field_set_var(field_set_add(field_set_mult(field_u8("a"), <<1, 2>>), R(1)), "v"),
   field_set_var(field_u8("_x"), "v"),
   field_set_var(field_s8("s"), "v"),
   field_set_var(field_bits("b", 4, 4, TRUE), "v"),
   field_set_var(field_bool("f", 0, TRUE), "v"),
   field_set_var(field_raw("d", "UDEC", 1), "v"),
   field_set_var(field_u8("c"), "w"),
   field_u8("n")}
FamilyV ==
  {Start(MkSchema(ENDIAN_BIG, fs), p, <<>>) :
     fs \in {q \in SeqsUpTo(LibV, 2) : q # <<>>}, p \in {<<37>>, <<37, 130>>}}

\* Family B: bitfields that share a byte, the last one consuming, alone or
\* between two plain bytes; each field gets one input of one kind
SchemasB ==
  {<<field_bits("lo", 0, 4, FALSE), field_bits("hi", 4, 4, TRUE)>>,
   <<field_u8("a"), field_bits("lo", 0, 4, FALSE), field_bits("hi", 4, 4, TRUE), field_u8("b")>>,
   <<field_bits("lo", 0, 2, FALSE), field_bits("x", 2, 3, FALSE), field_bits("hi", 5, 3, TRUE)>>}
ValuesB == {<<0, 0, 0, 0>>, <<255, 5, 2, 129>>, <<1, 3, 7, 255>>, <<0, 21, 1, 0>>}

RECURSIVE InputsB(_, _, _)
InputsB(fs, vals, kind) ==
  IF fs = <<>> THEN <<>>
  ELSE <<[name |-> Head(fs).name, k |-> kind, n |-> Head(vals), d |-> 1]>>
       \o InputsB(Tail(fs), Tail(vals), kind)

FamilyB ==
  {Start(MkSchema(ENDIAN_BIG, fs), <<>>, InputsB(fs, vals, kind)) :
     fs \in SchemasB, vals \in ValuesB, kind \in {"i64", "f64"}}

\* Family S: skip fields, '_'-named fields and bool fields next to plain
\* bytes, with an input for every name
LibS ==
  {field_u8("a"), field_u8("b"), field_skip(1), field_skip(2), field_u8("_x"),
   field_raw("n", "SKIP", 0),
   field_bool("f", 0, TRUE), field_bool("g", 0, FALSE), field_bool("x", 3, TRUE)}
FamilyS ==
  {Start(MkSchema(ENDIAN_BIG, fs), <<>>, InputsFor(<<"a", "b", "_x", "f", "g", "x">>)) :
     fs \in {q \in SeqsUpTo(LibS, 2) : q # <<>>}}

\* Family O: schemas of 32 and of 17 fields whose one case block is the
\* first three of the one-bit fields after the match, which the loop over
\* the fields then decodes again; no field consumes a byte
Repeat(f, n) == [k \in 1..n |-> f]

SchemaO(n) ==
  MkSchema(ENDIAN_BIG,
           <<HeadM, MatchField("$msg_type", <<CaseValue(1, 2, 3)>>)>>
           \o Repeat(field_bits("lo", 0, 1, FALSE), n - 2))
FamilyO ==
  {Start(SchemaO(n), p, <<>>) : n \in {17, SCHEMA_MAX_FIELDS}, p \in {<<1, 1>>, <<2, 1>>}}

\* Family P: encodings that fill result.data to its last byte, and schemas
\* whose skip fields carry a name of the caller's, which schema_encode
\* does not pass over
Pad(n) == [field_skip(n) EXCEPT !.name = "pad"]
SchemasP ==
  {Repeat(field_u64("a", ENDIAN_BIG), SCHEMA_MAX_FIELDS),
   <<Pad(200), Pad(56)>>, <<Pad(200), Pad(57)>>, <<Pad(255), field_u8("a")>>,
   <<Pad(255), Pad(255), field_u8("a")>>}
FamilyP ==
  {Start(MkSchema(ENDIAN_BIG, fs), <<1>>, InputsFor(<<"a">>)) : fs \in SchemasP}

\* Family Q: one consuming bool field at each bit position, inputs false
\* and true
FamilyQ ==
  {Start(MkSchema(ENDIAN_BIG, <<field_bool("x", bp, TRUE)>>), <<1>>,
         encode_inputs_add_double(<<>>, "x", R(v))) : bp \in 0..7, v \in {0, 1}}

\* Family C: descriptors that announce or hold more than the schema and a
\* lookup table can take, each with every truncation, and descriptors that
\* go on after their first record with bytes of any meaning
MaxTail == 3
RecLookupOf(n, entry) == <<129, 0, 52, 18, n>> \o Concat(Repeat(entry, n))
DescriptorsC ==
  {Header(0, 40) \o Concat(Repeat(RecU8, SCHEMA_MAX_FIELDS + 1)),
   Header(0, 1) \o RecU8 \o RecS16,
   Header(0, 2) \o RecLookupOf(SCHEMA_MAX_LOOKUP + 1, <<7, 0>>) \o RecU8,
   Header(0, 1) \o RecLookupOf(SCHEMA_MAX_LOOKUP + 1, <<7, 1, 65>>),
   Header(0, 1) \o RecLookupOf(2, <<7, 3, 65, 66, 67>>),
   Header(0, 1) \o <<129, 0, 52, 18, 255, 7, 255, 65>>}
TailBytes == {1, 2, 68, 160, 255}
FamilyC ==
  UNION { {StartLoad(p) : p \in Prefixes(d)} : d \in DescriptorsC }
  \cup {StartLoad(Header(1, n) \o <<tb, ex, 52, 18>> \o t) :
          n \in {1, 255}, tb \in {2, 97, 129, 225}, ex \in {0, 255},
          t \in SeqsUpTo(TailBytes, MaxTail)}

InitSet == FamilyA \cup FamilyW \cup FamilyM \cup FamilyR1 \cup FamilyR2
           \cup FamilyD1 \cup FamilyD2 \cup FamilyE \cup FamilyL \cup FamilyT \cup FamilyF
           \cup FamilyK \cup FamilyN \cup FamilyV \cup FamilyB \cup FamilyS
           \cup FamilyO \cup FamilyP \cup FamilyQ \cup FamilyC

Init ==
  /\ \E s0 \in InitSet :
       /\ schema = s0.schema /\ buf = s0.buf /\ inputs = s0.inputs
       /\ desc = s0.desc /\ mode = s0.mode
  /\ pc = "ready" /\ lrc = 1 /\ adds = 0
  /\ i = 0 /\ pos = 0 /\ vars = <<>> /\ result = ZeroResult /\ rc = 0
  /\ oob = FALSE /\ log = <<>>
  /\ ei = 0 /\ epos = 0 /\ eres = ZeroEncodeResult /\ erc = 0 /\ elog = <<>>

Next ==
  \/ DecodeStart
  \/ DecodeStep
  \/ DecodeReturn
  \/ EncodeStart
  \/ EncodeStep
  \/ EncodeReturn
  \/ DecodeEncoded
  \/ EncodeDecoded
  \/ LoadBinary
  \/ AddField

Spec == Init /\ [][Next]_vars_all

(***************************************************************************)
(* Properties                                                              *)
(***************************************************************************)
NoMatchField == \A k \in 1..Len(schema.fields) : schema.fields[k].type # "MATCH"
DecodedOk == pc = "decoded" /\ rc = SCHEMA_OK

\* the declared byte width of a field (one byte for bitfield and bool)
FieldNeed(f) ==
  CASE f.type \in {"U8", "S8", "BOOL", "BITS", "UDEC", "SDEC"} -> 1
    [] f.type \in {"U16", "S16", "F16"} -> 2
    [] f.type \in {"U24", "S24"} -> 3
    [] f.type \in {"U32", "S32", "F32"} -> 4
    [] f.type \in {"U64", "S64", "F64"} -> 8
    [] OTHER -> f.size

EmittedBefore(k) == Cardinality({j \in 1..(k - 1) : log[j].emitted})

\* C1: a field that needs more bytes than remain between the cursor and the
\* end of the payload makes schema_decode return SCHEMA_ERR_BUFFER, with
\* result.error_code set to it and result.field_count the number of fields
\* emitted before it.
C1_UnderrunIsBufferError ==
  \A k \in 1..Len(log) :
    LET e == log[k]
        f == schema.fields[e.idx + 1]
    IN  (f.type \notin {"OBJECT", "MATCH"} /\ e.pos0 + FieldNeed(f) > Len(buf))
        => /\ e.rc = SCHEMA_ERR_BUFFER
           /\ pc = "decoded"
           /\ rc = SCHEMA_ERR_BUFFER
           /\ result.error_code = SCHEMA_ERR_BUFFER
           /\ result.field_count = EmittedBefore(k)

\* C2: schema_decode never reads a payload byte at an index >= len.
C2_NoReadPastEnd == oob = FALSE

\* the names of the schema fields that satisfy Keep, in schema order
NamesWhere(fs, Keep(_)) ==
  LET sel == SelectSeq(fs, Keep) IN [k \in 1..Len(sel) |-> sel[k].name]

OutputNames == [k \in 1..Len(result.fields) |-> result.fields[k].name]

NotUnderscore(f) == ~IsInternal(f.name)
NamedNonSkip(f) == ~IsInternal(f.name) /\ f.name # "" /\ f.type # "SKIP"

\* C5 as stated: a successful decode of a schema without match fields emits
\* exactly one entry per field whose name does not begin with '_', in
\* schema order.
C5_OnePerNonUnderscoreField ==
  (DecodedOk /\ NoMatchField) => OutputNames = NamesWhere(schema.fields, NotUnderscore)

\* C5 amended: a successful decode of a schema without match fields emits
\* exactly one entry per field that is not a skip and whose name is
\* non-empty and does not begin with '_', in schema order.
C5_OnePerNamedNonSkipField ==
  (DecodedOk /\ NoMatchField) => OutputNames = NamesWhere(schema.fields, NamedNonSkip)

C5_Witness ==
  /\ DecodedOk /\ NoMatchField
  /\ Len(schema.fields) = 2
  /\ Len(result.fields) = 1
  /\ \E k \in 1..Len(schema.fields) :
       NotUnderscore(schema.fields[k]) /\ ~NamedNonSkip(schema.fields[k])

SumAdvance(l) == SumSeq([k \in DOMAIN l |-> l[k].pos1 - l[k].pos0])

\* C6: every successfully decoded field of a non-bitfield type advances the
\* cursor by exactly its declared size, and bytes_consumed after a
\* successful decode is the sum of the advances.
C6_AdvanceIsDeclaredSize ==
  /\ \A k \in 1..Len(log) :
       LET e == log[k]
           f == schema.fields[e.idx + 1]
       IN  (e.rc = SCHEMA_OK /\ f.type \notin {"BITS", "BOOL"}) => e.pos1 - e.pos0 = f.size
  /\ DecodedOk => result.bytes_consumed = SumAdvance(log)

\* C7: a bitfield advances the cursor by one byte iff its consume flag is
\* set, and a run of bitfields without consume followed by a consuming one
\* all extract (byte >> start) & ((1 << width) - 1) from the same byte.
\* The extracted bits are the field's value when it carries no modifier
\* and no lookup table.
C7_BitfieldCursor ==
  /\ \A k \in 1..Len(log) :
       LET e == log[k]
           f == schema.fields[e.idx + 1]
       IN  (e.rc = SCHEMA_OK /\ f.type = "BITS" /\ f.bit_start + f.bit_width <= 8)
           => /\ e.pos1 = e.pos0 + (IF f.consume THEN 1 ELSE 0)
              /\ (~f.has_mult /\ ~f.has_div /\ ~f.has_add /\ f.lookup = <<>>)
                   => e.value = VF64(R((buf[e.pos0 + 1] \div (2 ^ f.bit_start))
                                      % (2 ^ f.bit_width)))
  /\ \A j, k \in 1..Len(log) :
       (/\ j < k
        /\ log[k].rc = SCHEMA_OK
        /\ \A m \in j..k : schema.fields[log[m].idx + 1].type = "BITS"
        /\ \A m \in j..(k - 1) : ~schema.fields[log[m].idx + 1].consume)
       => log[k].pos0 = log[j].pos0

C7_Witness ==
  /\ DecodedOk
  /\ Len(log) = 2
  /\ schema.fields[1].type = "BITS" /\ ~schema.fields[1].consume
  /\ schema.fields[2].type = "BITS" /\ schema.fields[2].consume
  /\ log[2].pos0 = 0 /\ log[2].pos1 = 1
  /\ log[1].value # log[2].value

\* the 0-based indices of the fields that lie in the block of some case
InCaseBlock(idx) ==
  \E k \in 1..Len(schema.fields) :
    /\ schema.fields[k].type = "MATCH"
    /\ \E c \in 1..Len(schema.fields[k].cases) :
         LET cs == schema.fields[k].cases[c]
         IN  idx >= cs.field_start /\ idx < cs.field_start + cs.field_count

\* what a decode should emit at schema position k (1-based): a field
\* outside case blocks, and for a match the block of its selected case
NamesAt(k) ==
  LET f == schema.fields[k]
      c == FirstCase(f, var_get(vars, StripDollar(f.match_var)))
      block == IF c = 0 THEN <<>>
               ELSE SubSeq(schema.fields, f.cases[c].field_start + 1,
                           Min(f.cases[c].field_start + f.cases[c].field_count,
                               Len(schema.fields)))
  IN  IF f.type = "MATCH" THEN NamesWhere(block, NamedNonSkip)
      ELSE IF InCaseBlock(k - 1) THEN <<>>
      ELSE NamesWhere(<<f>>, NamedNonSkip)

\* and from schema position k on
ExpectedNames(k) ==
  Concat([j \in 1..(Len(schema.fields) - k + 1) |-> NamesAt(k + j - 1)])

\* C3: a successful decode of a schema with a match field emits exactly the
\* fields outside any case block plus the fields of the selected case, each
\* once and in schema order; the fields of other cases are not emitted.
C3_MatchEmitsSelectedCaseOnce ==
  (DecodedOk /\ ~NoMatchField) => OutputNames = ExpectedNames(1)

\* C4: no output field has a name beginning with '_', at the top level or
\* inside a match case block.
C4_NoInternalNameInOutput ==
  \A k \in 1..Len(result.fields) : ~IsInternal(result.fields[k].name)

(***************************************************************************)
(* Round trips                                                             *)
(***************************************************************************)
IntTypes == {"U8", "S8", "U16", "S16", "U24", "S24", "U32", "S32"}

DistinctNames(fs) == \A j, k \in 1..Len(fs) : fs[j].name = fs[k].name => j = k

\* an integer field that schema_encode does not skip and that has no lookup
CodecField(f) ==
  /\ f.type \in IntTypes
  /\ ~IsInternal(f.name) /\ f.name # ""
  /\ f.lookup = <<>>

Unmodified(f) == ~f.has_mult /\ ~f.has_div /\ ~f.has_add

InRange(type, v) ==
  CASE type = "U8" -> 0 <= v /\ v <= 255
    [] type = "S8" -> -128 <= v /\ v <= 127
    [] type = "U16" -> 0 <= v /\ v <= 65535
    [] type = "S16" -> -32768 <= v /\ v <= 32767
    [] type = "U24" -> 0 <= v /\ v <= 16777215
    [] type = "S24" -> -8388608 <= v /\ v <= 8388607
    [] type = "U32" -> 0 <= v
    [] type = "S32" -> TRUE

\* the input map gives field f an integer within the range of its type
HasIntegerInput(f) ==
  LET k == find_input(inputs, f.name)
  IN  k # 0 /\ inputs[k].d = 1 /\ InRange(f.type, inputs[k].n)

IntegerRoundTripCase ==
  /\ mode \in {"enc", "encdec"}
  /\ schema.fields # <<>>
  /\ DistinctNames(schema.fields)
  /\ \A k \in 1..Len(schema.fields) :
       LET f == schema.fields[k]
       IN  CodecField(f) /\ Unmodified(f) /\ HasIntegerInput(f)

\* C8: for a schema of integer fields and an input map giving each field
\* an integer within its declared range, schema_encode succeeds and
\* schema_decode of the encoded bytes returns SCHEMA_OK with every field
\* equal to its input and bytes_consumed equal to the encoded length
C8_IntegerRoundTrip ==
  IntegerRoundTripCase =>
    /\ pc = "encoded" => erc = SCHEMA_OK
    /\ (pc = "decoded" /\ mode = "encdec") =>
         /\ rc = SCHEMA_OK
         /\ result.bytes_consumed = eres.len
         /\ Len(result.fields) = Len(schema.fields)
         /\ \A k \in 1..Len(result.fields) :
              LET f == schema.fields[k]
                  v == inputs[find_input(inputs, f.name)].n
              IN  /\ result.fields[k].name = f.name
                  /\ result.fields[k].value = VF64(R(v))

SchemaLength(fs) == SumSeq([k \in DOMAIN fs |-> IntWidth(fs[k].type)])

\* a successful decode of a payload of the schema's length followed by
\* the encode of the decoded values
DecodeEncodeCase ==
  /\ pc = "encoded" /\ mode = "decenc"
  /\ DistinctNames(schema.fields)
  /\ \A k \in 1..Len(schema.fields) : CodecField(schema.fields[k])
  /\ Len(buf) = SchemaLength(schema.fields)

EncodedEqualsPayload ==
  /\ erc = SCHEMA_OK
  /\ eres.len = Len(buf)
  /\ \A k \in 1..Len(buf) : Load(eres.data, k - 1) = buf[k]

NonZeroScale(f) ==
  /\ f.has_mult => ~RIsZero(f.mult)
  /\ f.has_div => ~RIsZero(f.div)

C10_MissingInputIsErrMissing ==
  \A k \in 1..Len(elog) :
    LET f == schema.fields[elog[k].idx + 1]
    IN  (f.type # "SKIP" /\ find_input(inputs, f.name) = 0) =>
          /\ elog[k].rc = SCHEMA_ERR_MISSING
          /\ pc = "encoded" => erc = SCHEMA_ERR_MISSING

(***************************************************************************)
(* Encoder errors                                                          *)
(***************************************************************************)
EncodeUnsupportedTypes == {"ENUM", "HEX", "ASCII", "BYTES", "BASE64"}

HasUnsupportedWithInput ==
  \E k \in 1..Len(schema.fields) :
    /\ schema.fields[k].type \in EncodeUnsupportedTypes
    /\ find_input(inputs, schema.fields[k].name) # 0

\* C11 as stated: schema_encode returns SCHEMA_ERR_UNSUPPORTED, and sets
\* result.error_code to it, whenever the schema contains an enum, hex,
\* ascii, bytes or base64 field for which an input is supplied
C11_UnsupportedWheneverPresent ==
  (pc = "encoded" /\ HasUnsupportedWithInput) =>
    (erc = SCHEMA_ERR_UNSUPPORTED /\ eres.error_code = SCHEMA_ERR_UNSUPPORTED)

\* C11 amended: when schema_encode reaches an enum, hex, ascii, bytes or
\* base64 field that has an input (the field's name does not begin with
\* '_' and every earlier field was encoded), it writes nothing for it,
\* returns SCHEMA_ERR_UNSUPPORTED and sets result.error_code to it
C11_UnsupportedWhenReached ==
  \A k \in 1..Len(elog) :
    LET f == schema.fields[elog[k].idx + 1]
    IN  (f.type \in EncodeUnsupportedTypes /\ find_input(inputs, f.name) # 0) =>
          /\ elog[k].rc = SCHEMA_ERR_UNSUPPORTED
          /\ elog[k].pos1 = elog[k].pos0
          /\ epos = elog[k].pos0
          /\ pc = "encoded"
          /\ erc = SCHEMA_ERR_UNSUPPORTED
          /\ eres.error_code = SCHEMA_ERR_UNSUPPORTED

C11_Witness ==
  /\ pc = "encoded"
  /\ Len(elog) = 2
  /\ elog[1].rc = SCHEMA_OK /\ elog[1].pos1 = 2
  /\ schema.fields[2].type = "HEX"
  /\ find_input(inputs, schema.fields[2].name) # 0
  /\ erc = SCHEMA_ERR_UNSUPPORTED

\* C12: when schema_decode fails part-way through a schema,
\* result.bytes_consumed is the cursor reached by the last successful
\* field advance
C12_BytesConsumedOnFailure ==
  (pc = "decoded" /\ rc # SCHEMA_OK) => result.bytes_consumed = pos

\* C13: when schema_encode fails at some field, result.len is the number
\* of bytes written by the fields fully written before it
C13_LenOnFailure ==
  (pc = "encoded" /\ erc # SCHEMA_OK) => eres.len = epos

(***************************************************************************)
(* Loading a binary descriptor, building a schema                          *)
(***************************************************************************)
BadHeader(d) == Len(d) < 5 \/ d[1] # 80 \/ d[2] # 83

\* C14: schema_load_binary returns SCHEMA_ERR_PARSE when the descriptor is
\* shorter than 5 bytes or does not begin with 'P','S', and then leaves the
\* caller's schema as it was; a valid header with field count 0 loads with
\* SCHEMA_OK as an empty schema.
C14_BadHeaderIsParseError ==
  [][(lrc = 1 /\ lrc' # 1) =>
       /\ BadHeader(desc) => (lrc' = SCHEMA_ERR_PARSE /\ schema' = schema)
       /\ (~BadHeader(desc) /\ desc[5] = 0) => (lrc' = SCHEMA_OK /\ schema'.fields = <<>>)]_vars_all

C14_Witness ==
  /\ lrc = SCHEMA_ERR_PARSE
  /\ Len(desc) > 5 /\ desc[1] = 80 /\ desc[2] # 83
  /\ schema.fields # <<>>

\* the end of a lookup table of n entries (key, length, string) that begins
\* at offset off, or -1 when the table runs past the end of the descriptor,
\* as a table of Len(data) entries or more does
RECURSIVE TableEnd(_, _, _)
TableEnd(data, off, n) ==
  IF off = -1 \/ n = 0 THEN off
  ELSE IF n > 1 THEN TableEnd(data, TableEnd(data, off, n \div 2), n - n \div 2)
  ELSE IF off + 2 > Len(data) THEN -1
  ELSE IF off + 2 + data[off + 2] > Len(data) THEN -1
  ELSE off + 2 + data[off + 2]

AfterBitfieldByte(data, off, class) ==
  IF class # 6 THEN off + 4
  ELSE IF off + 5 > Len(data) THEN -1
  ELSE IF off + 5 < Len(data) /\ data[off + 6] = 1 THEN off + 6
  ELSE off + 5

AfterAddend(data, a) ==
  IF a = -1 THEN -1
  ELSE IF a < Len(data) /\ data[a + 1] = 160 THEN (IF a + 3 > Len(data) THEN -1 ELSE a + 3)
  ELSE a

AfterLookupTable(data, a, has_lookup) ==
  IF a = -1 THEN -1
  ELSE IF ~has_lookup THEN a
  ELSE IF a >= Len(data) THEN -1
  ELSE TableEnd(data, a + 1, Min(data[a + 1], Len(data)))

\* the end of the record that begins at offset off: type byte, exponent,
\* 2-byte id, then the bitfield byte of a bitfield record, the addend after
\* an add marker, the lookup table of a record flagged to have one; -1 when
\* one of these parts runs past the end of the descriptor
RecordEnd(data, off) ==
  IF off + 4 > Len(data) THEN -1
  ELSE AfterLookupTable(data,
                        AfterAddend(data, AfterBitfieldByte(data, off, (data[off + 1] \div 16) % 8)),
                        data[off + 1] >= 128)

\* st = [off, over]: the end of the complete records so far, over when a
\* record was not complete; CompleteNext takes the record that ends at e
CompleteNext(st, e) ==
  IF e = -1 THEN [st EXCEPT !.over = TRUE] ELSE [off |-> e, over |-> FALSE]

\* m records on from st, taken in halves
RECURSIVE CompleteRecords(_, _, _)
CompleteRecords(data, st, m) ==
  IF st.over \/ m <= 0 THEN st
  ELSE IF m > 1 THEN CompleteRecords(data, CompleteRecords(data, st, m \div 2), m - m \div 2)
  ELSE IF st.off >= Len(data) THEN [st EXCEPT !.over = TRUE]
  ELSE CompleteNext(st, RecordEnd(data, st.off))

\* the end of the last of the leading complete records, of at most n; there
\* are fewer than Len(data) of them
CompleteEnd(data, off, k, n) ==
  CompleteRecords(data, [off |-> off, over |-> FALSE], Min(n - k, Len(data))).off

\* C15: a descriptor with a valid header, cut off anywhere, loads with
\* SCHEMA_OK as the schema of its leading complete records: the field whose
\* record runs past the end of the buffer is not added.
C15_TruncatedLoadsCompleteRecords ==
  (lrc = SCHEMA_OK) =>
     schema = schema_load_binary(schema_init,
                                 SubSeq(desc, 1, CompleteEnd(desc, 5, 0, desc[5]))).schema

\* a load that returned SCHEMA_OK on a descriptor cut inside a record
C15_Witness ==
  /\ lrc = SCHEMA_OK
  /\ CompleteEnd(desc, 5, 0, desc[5]) < Len(desc)
  /\ Len(schema.fields) = 1

\* the field type tabulated for a type class and a size nibble
WidthName(prefix, size) ==
  CASE size = 1 -> prefix \o "8"
    [] size = 2 -> prefix \o "16"
    [] size = 3 -> prefix \o "24"
    [] size = 4 -> prefix \o "32"
    [] OTHER -> prefix \o "64"

TabulatedType(class, size) ==
  CASE class = 0 -> WidthName("U", size)
    [] class = 1 -> WidthName("S", size)
    [] class = 2 -> WidthName("F", size)
    [] class = 3 -> "BYTES"
    [] class = 4 -> "BOOL"
    [] class = 5 -> "ENUM"
    [] class = 6 -> "BITS"
    [] OTHER -> "MATCH"

TabulatedSize(class, size) ==
  CASE class \in {0, 1} -> size \in {1, 2, 3, 4, 8}
    [] class = 2 -> size \in {2, 4, 8}
    [] OTHER -> TRUE

\* a descriptor of one complete record whose type byte has bit 7 clear
OnePlainRecord ==
  /\ Len(desc) = 9 /\ ~BadHeader(desc) /\ desc[5] = 1
  /\ desc[6] < 128
  /\ TabulatedSize(desc[6] \div 16, desc[6] % 16)

\* C16: schema_load_binary gives the field of a record the type tabulated
\* for its type-class code (bits 6..4 of the type byte) and size nibble; in
\* particular a record of class 5 loads as an enum field.
C16_TypeClassAsTabulated ==
  (lrc = SCHEMA_OK /\ OnePlainRecord) =>
     /\ Len(schema.fields) = 1
     /\ schema.fields[1].type = TabulatedType(desc[6] \div 16, desc[6] % 16)

\* C17: whatever schema_add_field calls are made on an initialised schema,
\* field_count <= SCHEMA_MAX_FIELDS; a call made on a schema of 32 fields
\* changes neither field_count nor any stored field.
C17_FieldCountBounded ==
  /\ [](Len(schema.fields) <= SCHEMA_MAX_FIELDS)
  /\ [][(adds' # adds /\ Len(schema.fields) = SCHEMA_MAX_FIELDS) => schema' = schema]_vars_all

\* every call was made on a full schema: the 32 fields are the first ones
C17_Witness ==
  /\ adds = MaxAdds
  /\ Len(schema.fields) = SCHEMA_MAX_FIELDS
  /\ \A k \in 1..Len(schema.fields) : schema.fields[k] = field_u8("a")

(***************************************************************************)
(* Lookup tables and match fields in decode                                *)
(***************************************************************************)
\* the decode_field calls on a one-byte field (u8, or enum of base size 1)
\* that has a lookup table and returned SCHEMA_OK
LookupCalls ==
  {k \in 1..Len(log) :
     LET f == schema.fields[log[k].idx + 1]
     IN  /\ log[k].rc = SCHEMA_OK
         /\ f.lookup # <<>>
         /\ f.type = "U8" \/ (f.type = "ENUM" /\ f.size = 1)}

LookupValueAsClaimed(f, raw, value) ==
  IF LookupIndex(f, raw) # 0 THEN value = VStr(f.lookup[LookupIndex(f, raw)].value)
  ELSE IF f.type = "ENUM" THEN value = VUnknown(raw)
  ELSE /\ value.k \in {"i64", "f64"}
       /\ RNorm(value.n, value.d) = ApplyModifiers(f, R(raw), TRUE)

\* C18: a field with a lookup table decodes to the string of the entry whose
\* key is the raw integer; when no key matches, decode still succeeds and a
\* non-enum field has the number raw * mult / div + add as its value, an
\* enum field the string "unknown(N)" with N the raw value.
C18_LookupSemantics ==
  /\ \A k \in LookupCalls :
        LookupValueAsClaimed(schema.fields[log[k].idx + 1], buf[log[k].pos0 + 1], log[k].value)
  /\ \A k \in 1..Len(log) :
        (schema.fields[log[k].idx + 1].type \in {"U8", "ENUM"} /\ log[k].pos0 < Len(buf))
          => log[k].rc = SCHEMA_OK

\* a lookup miss on a non-enum field with a multiplier
C18_Witness ==
  /\ DecodedOk /\ LookupCalls # {}
  /\ \E k \in LookupCalls :
       /\ schema.fields[log[k].idx + 1].has_mult
       /\ schema.fields[log[k].idx + 1].type = "U8"
       /\ LookupIndex(schema.fields[log[k].idx + 1], buf[log[k].pos0 + 1]) = 0

\* the 0-based field index idx lies in the block of a case of match field f
InBlockOf(f, idx) ==
  \E c \in 1..Len(f.cases) :
    idx >= f.cases[c].field_start /\ idx < f.cases[c].field_start + f.cases[c].field_count

\* the loop has passed the match field at position m (1-based), the only
\* match of the schema, and its variable is bound only by fields before it,
\* so the variable still has the value the match saw
MatchPassed(m) ==
  /\ schema.fields[m].type = "MATCH"
  /\ pc \in {"decoding", "decoded"} /\ i >= m
  /\ \A j \in 1..Len(schema.fields) :
       /\ schema.fields[j].type = "MATCH" => j = m
       /\ schema.fields[j].var_name = StripDollar(schema.fields[m].match_var) => j < m

NoCaseMatched(m) ==
  FirstCase(schema.fields[m], var_get(vars, StripDollar(schema.fields[m].match_var))) = 0

\* C19: when no case of a match field matches the value of its variable, no
\* error is raised and none of the fields of its case blocks is decoded or
\* emitted: decoding goes on after the match construct with the cursor, the
\* variables and the output list as they were before it.
C19_UnmatchedMatchIsSkipped ==
  \A m \in 1..Len(schema.fields) :
    (MatchPassed(m) /\ NoCaseMatched(m)) =>
       \A k \in 1..Len(log) : ~InBlockOf(schema.fields[m], log[k].idx)

\* the step over the match field itself changes nothing but the loop index
C19_MatchStepFrame ==
  [][(pc = "decoding" /\ i < Len(schema.fields) /\ schema.fields[i + 1].type = "MATCH"
      /\ NoCaseMatched(i + 1) /\ i' # i)
     => (pos' = pos /\ vars' = vars /\ result' = result /\ i' = i + 1 /\ pc' = "decoding")]_vars_all

C19_Witness ==
  /\ DecodedOk
  /\ \E m \in 1..Len(schema.fields) : MatchPassed(m) /\ NoCaseMatched(m)

\* case c of match field f is the first one, in declaration order, whose
\* predicate holds of the variable's current value
IsFirstHit(f, c) ==
  /\ CaseMatches(f.cases[c], var_get(vars, StripDollar(f.match_var)))
  /\ \A b \in 1..(c - 1) : ~CaseMatches(f.cases[b], var_get(vars, StripDollar(f.match_var)))

NoHit(f) ==
  \A c \in 1..Len(f.cases) : ~CaseMatches(f.cases[c], var_get(vars, StripDollar(f.match_var)))

\* the number of fields of the block of case cs that lie inside the schema
BlockLen(cs) ==
  IF cs.field_start >= Len(schema.fields) THEN 0
  ELSE Min(cs.field_count, Len(schema.fields) - cs.field_start)

\* the decode_field calls new of one match step are those of the block of
\* case cs, in order from the cursor p on, up to the first failing one
DecodesBlock(cs, new, p, finished) ==
  /\ Len(new) <= BlockLen(cs)
  /\ finished => Len(new) = BlockLen(cs)
  /\ \A j \in 1..Len(new) :
       /\ new[j].in_case
       /\ new[j].idx = cs.field_start + j - 1
       /\ new[j].pos0 = IF j = 1 THEN p ELSE new[j - 1].pos1
       /\ j < Len(new) => new[j].rc = SCHEMA_OK

\* C20: the step of schema_decode over a match field tests the cases in
\* declaration order and decodes the block of the first case whose
\* predicate holds, from the current cursor on, and of no other case; it
\* decodes nothing when no predicate holds.
C20_FirstMatchingCaseOnly ==
  [][(pc = "decoding" /\ i < Len(schema.fields) /\ schema.fields[i + 1].type = "MATCH") =>
       /\ SubSeq(log', 1, Len(log)) = log
       /\ NoHit(schema.fields[i + 1]) => log' = log
       /\ \A c \in 1..Len(schema.fields[i + 1].cases) :
            IsFirstHit(schema.fields[i + 1], c) =>
              DecodesBlock(schema.fields[i + 1].cases[c],
                           SubSeq(log', Len(log) + 1, Len(log')), pos, pc' = "decoding")]_vars_all

\* a default case declared first was taken although the second case holds too
C20_Witness ==
  /\ pc = "decoding" /\ i = 2 /\ Len(schema.fields) = 4
  /\ schema.fields[2].type = "MATCH" /\ Len(schema.fields[2].cases) = 2
  /\ schema.fields[2].cases[1].is_default
  /\ CaseMatches(schema.fields[2].cases[2], var_get(vars, "msg_type"))
  /\ Len(log) = 2 /\ log[2].in_case /\ log[2].idx = schema.fields[2].cases[1].field_start

\* the predicate of a case as the specification states it: default marker,
\* single value, range with min # max, or an entry of the match list
ListContains(cs, v) ==
  \E j \in 1..8 : cs.match_list[j] = v /\ \A k \in 1..j : cs.match_list[k] # -1

CaseHolds(cs, v) ==
  \/ cs.is_default
  \/ cs.match_value = v
  \/ cs.range_min # cs.range_max /\ cs.range_min <= v /\ v <= cs.range_max
  \/ ListContains(cs, v)

MatchVar(f) == var_get(vars, StripDollar(f.match_var))

\* C21: a match case is selected exactly when its default marker is set, or
\* its single value equals the variable, or its range (min # max) contains
\* it, or an entry of its match list equals it: the step over a match field
\* decodes the block of the first case for which one of these holds, and
\* decodes nothing when none holds for any case.
C21_CaseSelectedIffPredicate ==
  [][(pc = "decoding" /\ i < Len(schema.fields) /\ schema.fields[i + 1].type = "MATCH") =>
       /\ (\A c \in 1..Len(schema.fields[i + 1].cases) :
              ~CaseHolds(schema.fields[i + 1].cases[c], MatchVar(schema.fields[i + 1])))
            => log' = log
       /\ \A c \in 1..Len(schema.fields[i + 1].cases) :
            (/\ CaseHolds(schema.fields[i + 1].cases[c], MatchVar(schema.fields[i + 1]))
             /\ \A b \in 1..(c - 1) :
                  ~CaseHolds(schema.fields[i + 1].cases[b], MatchVar(schema.fields[i + 1])))
            => DecodesBlock(schema.fields[i + 1].cases[c],
                            SubSeq(log', Len(log) + 1, Len(log')), pos, pc' = "decoding")]_vars_all

\* the decode_field calls made for a match field that lies in a case block
NestedMatchCalls ==
  {k \in 1..Len(log) : log[k].in_case /\ schema.fields[log[k].idx + 1].type = "MATCH"}

\* C22: a match field inside the block of a selected case is evaluated like
\* any match, against the same variables and cursor: it raises no error and
\* the block of its own first matching case is decoded next.
C22_NestedMatchIsEvaluated ==
  \A k \in NestedMatchCalls :
    /\ log[k].rc = SCHEMA_OK
    /\ log[k].pos1 = log[k].pos0
    /\ \A c \in 1..Len(schema.fields[log[k].idx + 1].cases) :
         (IsFirstHit(schema.fields[log[k].idx + 1], c)
          /\ BlockLen(schema.fields[log[k].idx + 1].cases[c]) > 0)
         => /\ Len(log) > k
            /\ log[k + 1].in_case
            /\ log[k + 1].idx = schema.fields[log[k].idx + 1].cases[c].field_start

C22_Witness == pc = "decoded" /\ NestedMatchCalls # {}

(***************************************************************************)
(* The variable environment                                                *)
(***************************************************************************)
\* the field types that read an integer from the payload
RawIntegerTypes == {"U8", "U16", "U24", "U32", "S8", "S16", "S24", "S32", "BITS", "BOOL", "ENUM"}

FieldOf(e) == schema.fields[e.idx + 1]

\* the integer the field of log entry e read at its cursor, before modifiers
RawOf(e) ==
  LET f == FieldOf(e)
      big == (IF f.endian # ENDIAN_DEFAULT THEN f.endian ELSE schema.endian) = ENDIAN_BIG
  IN  CASE f.type = "BITS" -> extract_bits(buf[e.pos0 + 1], f.bit_start, f.bit_width)
        [] f.type = "BOOL" -> (buf[e.pos0 + 1] \div Pow2(f.bit_start)) % 2
        [] f.type = "ENUM" /\ f.size # 2 -> buf[e.pos0 + 1]
        [] f.type = "ENUM" /\ f.size = 2 ->
             ReadInt("U16", SubSeq(buf, e.pos0 + 1, e.pos0 + 2), big)
        [] OTHER -> ReadInt(f.type, SubSeq(buf, e.pos0 + 1, e.pos0 + IntWidth(f.type)), big)

\* the successful decode_field calls of integer fields bound to name
Binders(name) ==
  {k \in 1..Len(log) :
     /\ log[k].rc = SCHEMA_OK
     /\ FieldOf(log[k]).var_name = name
     /\ FieldOf(log[k]).type \in RawIntegerTypes}

VarNames == {"v", "w", "msg_type", "missing"}

SameByte(j, k) ==
  /\ j < k
  /\ \A m \in j..k : schema.fields[m].type = "BITS"
  /\ \A m \in j..(k - 1) : ~schema.fields[m].consume

\* every field is a u8 or a bitfield with an integer input that fits it;
\* the bitfields of one byte do not overlap and the last one consumes
SharedByteCase ==
  /\ mode \in {"enc", "encdec"}
  /\ schema.fields # <<>> /\ DistinctNames(schema.fields)
  /\ \A k \in 1..Len(schema.fields) :
       LET f == schema.fields[k]
           ix == find_input(inputs, f.name)
       IN  /\ f.type \in {"U8", "BITS"} /\ Unmodified(f) /\ f.lookup = <<>>
           /\ ~IsInternal(f.name) /\ f.name # ""
           /\ ix # 0 /\ inputs[ix].d = 1 /\ inputs[ix].n >= 0
           /\ f.type = "U8" => inputs[ix].n <= 255
           /\ f.type = "BITS" =>
                /\ f.bit_start + f.bit_width <= 8
                /\ inputs[ix].n < Pow2(f.bit_width)
                /\ ~f.consume => (k < Len(schema.fields) /\ schema.fields[k + 1].type = "BITS")
  /\ \A j, k \in 1..Len(schema.fields) :
       SameByte(j, k) =>
         schema.fields[j].bit_start + schema.fields[j].bit_width <= schema.fields[k].bit_start

HasBitfield == \E k \in 1..Len(schema.fields) : schema.fields[k].type = "BITS"

RoundTripsInputs ==
  /\ pc = "encoded" => erc = SCHEMA_OK
  /\ (pc = "decoded" /\ mode = "encdec") =>
       /\ rc = SCHEMA_OK
       /\ Len(result.fields) = Len(schema.fields)
       /\ \A k \in 1..Len(result.fields) :
            result.fields[k].value =
              VF64(R(inputs[find_input(inputs, schema.fields[k].name)].n))

\* C24: for non-overlapping bitfields that share a byte, the last one
\* consuming, encode followed by decode returns the input value of every
\* bitfield (each write changing only its own bits of the byte at the
\* cursor).
C24_SharedByteRoundTrip ==
  (SharedByteCase /\ HasBitfield) => RoundTripsInputs

\* the same for input maps built with encode_inputs_add_double
C24_SharedByteRoundTripDoubles ==
  (SharedByteCase /\ HasBitfield /\ \A k \in 1..Len(inputs) : inputs[k].k = "f64")
    => RoundTripsInputs

\* the write of one bitfield: the bits outside [start, start + width) of the
\* byte at the cursor and every other byte stay as they were, the bits
\* inside are the low bits of a double input, and the cursor moves by one
\* only if consume is set
C24_BitfieldWriteFrame ==
  [][(pc = "encoding" /\ ei < Len(schema.fields) /\ schema.fields[ei + 1].type = "BITS"
      /\ ~IsInternal(schema.fields[ei + 1].name) /\ ei' = ei + 1) =>
       LET f == schema.fields[ei + 1]
           ix == find_input(inputs, f.name)
       IN  /\ epos' = IF f.consume THEN epos + 1 ELSE epos
           /\ \A idx \in 0..(epos + 2) :
                idx # epos => Load(eres'.data, idx) = Load(eres.data, idx)
           /\ \A b \in 0..7 :
                IF b >= f.bit_start /\ b < f.bit_start + f.bit_width
                THEN (inputs[ix].k = "f64" /\ inputs[ix].d = 1 /\ inputs[ix].n >= 0 /\ Unmodified(f))
                       => Bit(Load(eres'.data, epos), b)
                            = Bit(inputs[ix].n % Pow2(f.bit_width), b - f.bit_start)
                ELSE Bit(Load(eres'.data, epos), b) = Bit(Load(eres.data, epos), b)]_vars_all

C24_Witness ==
  /\ SharedByteCase /\ pc = "decoded" /\ mode = "encdec" /\ rc = SCHEMA_OK
  /\ Len(schema.fields) = 3 /\ \A k \in 1..3 : schema.fields[k].type = "BITS"
  /\ \A k \in 1..3 : result.fields[k].value # VF64(R(0))

(***************************************************************************)
(* Encoder and decoder side by side                                        *)
(***************************************************************************)
\* schema_decode has returned from decoding the bytes schema_encode produced
DecodedEncoding == pc = "decoded" /\ mode = "encdec"

\* C25: for a schema without match fields and an input map with which
\* schema_encode succeeds, decoding the encoded bytes with the same schema
\* consumes exactly the encoded length, and every field is read at the
\* offset where it was written.
C25_SameLayout ==
  (DecodedEncoding /\ NoMatchField) =>
     /\ rc = SCHEMA_OK
     /\ result.bytes_consumed = eres.len
     /\ \A j \in 1..Len(elog), k \in 1..Len(log) :
          elog[j].idx = log[k].idx => elog[j].pos0 = log[k].pos0

\* the same for schemas of plain fields: no skip, no '_' name, no bool
C25_SameLayoutPlainFields ==
  (/\ DecodedEncoding /\ NoMatchField
   /\ \A k \in 1..Len(schema.fields) :
        /\ schema.fields[k].type \notin {"SKIP", "BOOL"}
        /\ ~IsInternal(schema.fields[k].name)
        /\ schema.fields[k].type = "BITS" =>
             (schema.fields[k].consume \/ k < Len(schema.fields)))
  => /\ rc = SCHEMA_OK
     /\ result.bytes_consumed = eres.len
     /\ \A j \in 1..Len(elog), k \in 1..Len(log) :
          elog[j].idx = log[k].idx => elog[j].pos0 = log[k].pos0

(***************************************************************************)
(* Capacities                                                              *)
(***************************************************************************)
\* C26: for a schema of at most 32 fields, also one whose match cases name
\* slices of the field list, result.field_count never exceeds
\* SCHEMA_MAX_FIELDS and no decode_field call writes a slot of
\* result.fields at an index >= 32.
C26_OutputWithinCapacity ==
  Len(schema.fields) <= SCHEMA_MAX_FIELDS =>
    /\ result.field_count <= SCHEMA_MAX_FIELDS
    /\ \A k \in 1..Len(log) : EmittedBefore(k) < SCHEMA_MAX_FIELDS

\* C27: for a schema of at most 32 fields and any input map, schema_encode
\* stores no byte at an index >= SCHEMA_MAX_PAYLOAD of result.data and
\* result.len <= 256 on return.
C27_PayloadWithinCapacity ==
  Len(schema.fields) <= SCHEMA_MAX_FIELDS =>
    /\ \A k \in DOMAIN eres.data : k < SCHEMA_MAX_PAYLOAD
    /\ pc = "encoded" => eres.len <= SCHEMA_MAX_PAYLOAD

\* the same for schemas without skip fields, whose 32 fields hold at most
\* 8 bytes each
C27_PayloadWithinCapacityNoSkip ==
  (\A k \in 1..Len(schema.fields) : schema.fields[k].type # "SKIP") =>
    C27_PayloadWithinCapacity

\* an encoding that fills all of result.data
C27_FullPayload == pc = "encoded" /\ erc = SCHEMA_OK /\ eres.len = SCHEMA_MAX_PAYLOAD

\* C28: whenever schema_decode returns SCHEMA_OK,
\* 0 <= result.bytes_consumed <= payload length, skip fields included.
C28_ConsumedWithinPayload ==
  DecodedOk => (0 <= result.bytes_consumed /\ result.bytes_consumed <= Len(buf))

\* the fields whose advance is tested against len before it is made:
\* all but skip, and enum of size 0, which is read as one byte
Checked(f) == f.type # "SKIP" /\ ~(f.type = "ENUM" /\ f.size = 0)

\* the same for schemas of such fields
C28_ConsumedWithinPayloadChecked ==
  (\A k \in 1..Len(schema.fields) : Checked(schema.fields[k])) =>
    C28_ConsumedWithinPayload

\* a successful decode of such fields that consumed the whole payload
C28_WholePayload ==
  /\ DecodedOk /\ Len(buf) > 0 /\ result.bytes_consumed = Len(buf)
  /\ \A k \in 1..Len(schema.fields) : Checked(schema.fields[k])

(***************************************************************************)
(* Bool round trip                                                         *)
(***************************************************************************)
\* a schema of a single consuming bool field whose one input was encoded
\* and the encoding decoded
BoolRoundTripCase ==
  /\ pc = "decoded" /\ mode = "encdec"
  /\ Len(schema.fields) = 1
  /\ schema.fields[1].type = "BOOL" /\ schema.fields[1].consume
  /\ schema.fields[1].bit_start \in 0..7
  /\ Len(inputs) = 1 /\ inputs[1].name = schema.fields[1].name
  /\ inputs[1].k = "f64" /\ inputs[1].d = 1 /\ inputs[1].n \in {0, 1}

BoolComesBack ==
  /\ rc = SCHEMA_OK
  /\ result.field_count = 1
  /\ result.fields[1].value = VBool(inputs[1].n = 1)

\* C29: a single consuming bool field at any bit position 0..7: encoding
\* true (false) and decoding the resulting byte yields true (false).
C29_BoolRoundTrip == BoolRoundTripCase => BoolComesBack

\* the same at bit position 0
C29_BoolRoundTripBitZero ==
  (BoolRoundTripCase /\ schema.fields[1].bit_start = 0) => BoolComesBack

\* true was encoded at bit position 0 and came back
C29_TrueAtBitZero ==
  /\ BoolRoundTripCase /\ schema.fields[1].bit_start = 0 /\ inputs[1].n = 1
  /\ BoolComesBack

(***************************************************************************)
(* The loader stays inside the descriptor and the capacities               *)
(***************************************************************************)
\* schema_load_binary has returned on the descriptor desc
Loaded == desc # <<>> /\ lrc # 1

\* C30: for a byte string of length len, whatever follows a valid or an
\* invalid header, schema_load_binary reads only indices < len, and on
\* SCHEMA_OK the loaded schema has field_count <= min(data[4], 32) and
\* lookup_count <= 16 in every field.
C30_LoaderStaysInside ==
  Loaded =>
    /\ \A k \in ReadsOfLoad(desc) : k < Len(desc)
    /\ lrc = SCHEMA_OK =>
         /\ Len(schema.fields) <= Min(desc[5], SCHEMA_MAX_FIELDS)
         /\ \A k \in 1..Len(schema.fields) :
              Len(schema.fields[k].lookup) <= SCHEMA_MAX_LOOKUP

\* a load that met both capacities: more records than 32 were announced
\* and present, or a table of more than 16 entries was filled to 16
C30_Witness ==
  /\ Loaded /\ lrc = SCHEMA_OK
  /\ \/ desc[5] > SCHEMA_MAX_FIELDS /\ Len(schema.fields) = SCHEMA_MAX_FIELDS
        /\ Len(desc) > 5 + 4 * SCHEMA_MAX_FIELDS
     \/ \E k \in 1..Len(schema.fields) :
          Len(schema.fields[k].lookup) = SCHEMA_MAX_LOOKUP /\ desc[10] > SCHEMA_MAX_LOOKUP
====
